---- MODULE Spec2Model ----
(***************************************************************************)
(* Match-play golf scoring backend: the match-play result calculator       *)
(* (models.CalculateMatchPlayResult), the hole-result mutators of the      *)
(* three store backends (MemoryStore, FileStore, FirestoreStore) and their *)
(* locking discipline.                                                     *)
(***************************************************************************)
EXTENDS Integers, Sequences, FiniteSets, TLC

VARIABLES
    cHoles,     \* calculator input: the holeResults map handed to the calculator
    cNames,     \* calculator input: <<team1Name, team2Name>>
    cOut,       \* calculator output [result, score]; result "" = not yet called
    backend,    \* which Store implementation this instance is
    store,      \* its storage: memory map / data directory / tournaments collection
    now,        \* the clock read by time.Now()
    nextId,     \* number of identifiers uuid.New() has handed out
    last,       \* the last operation called on the store and the error it returned
    mu,         \* the store's sync.RWMutex
    procs,      \* the goroutines serving requests: position, request, loaded tournament, error
    sbIn,       \* scoreboard input: the tournament CalculateScoreboard is called on
    sbOut,      \* scoreboard output: the Scoreboard returned and the tournament after the call
    jsonIn,     \* decoder input: the JSON document of a match
    jsonOut,    \* decoder output: the Match that Match.UnmarshalJSON leaves
    replicas,   \* one store of each backend given the same calls: the call, the stores, what each returned
    mem         \* the MemoryStore with its pointers: the backing arrays, the map's entry, the callers' values

----------------------------------------------------------------------------
(* Program constants and bounds *)

\* models.go:196  for h := 1; h <= 18; h++
NumHoles == 18

\* number of constant-outcome runs the calculator's input maps are built from
MaxRuns == 2

\* the clock stops the run at this reading (each mutation reads the clock once)
MaxTime == 5

\* identifiers uuid.New() can hand out in one run
MaxIds == 4

\* matches in one pairing request
MaxMatches == 2

\* matches in each of rounds 1 and 2 of the tournaments a scoreboard is computed for
MaxBoardMatches == 3

\* length of the short legacy arrays decoded besides those of 18 items
MaxShortArray == 2

\* set-hole-result is called on holes 1..MaxLowHole and on hole 18
MaxLowHole == 1

\* calls each goroutine serves in the concurrent store
MaxCalls == 1

----------------------------------------------------------------------------
(* Go primitives *)

\* reading a Go map: a missing key reads as the zero value ""
Lookup(m, k) == IF k \in DOMAIN m THEN m[k] ELSE ""

Digits == <<"0", "1", "2", "3", "4", "5", "6", "7", "8", "9">>

\* fmt "%d" / strconv.Itoa of an integer
RECURSIVE IntToStr(_)
IntToStr(n) ==
    IF n < 0 THEN "-" \o IntToStr(0 - n)
    ELSE IF n < 10 THEN Digits[n + 1]
    ELSE IntToStr(n \div 10) \o Digits[(n % 10) + 1]

----------------------------------------------------------------------------
(* models.MatchResult *)

ResultPending == "pending"
ResultTeam1 == "team1"
ResultTeam2 == "team2"
ResultTie == "tie"

----------------------------------------------------------------------------
(* models.CalculateMatchPlayResult, models.go:187-245 *)

\* one iteration of the counting loop: the switch on holeResults[h]
CountHole(acc, v) ==
    IF v = "team1" THEN [t1Wins |-> acc.t1Wins + 1, t2Wins |-> acc.t2Wins, played |-> acc.played + 1]
    ELSE IF v = "team2" THEN [t1Wins |-> acc.t1Wins, t2Wins |-> acc.t2Wins + 1, played |-> acc.played + 1]
    ELSE IF v = "halved" THEN [t1Wins |-> acc.t1Wins, t2Wins |-> acc.t2Wins, played |-> acc.played + 1]
    ELSE acc

\* which holes the loop scans: for h := 1; h <= 18; h++
CountAllKeysRange(holeResults) == DOMAIN holeResults
CountRange(holeResults) == 1..NumHoles

RECURSIVE CountOver(_, _, _)
CountOver(holeResults, todo, acc) ==
    IF todo = {} THEN acc
    ELSE LET h == CHOOSE x \in todo : \A y \in todo : x <= y
         IN CountOver(holeResults, todo \ {h}, CountHole(acc, Lookup(holeResults, h)))

CountHoles(holeResults) ==
    CountOver(holeResults, CountRange(holeResults), [t1Wins |-> 0, t2Wins |-> 0, played |-> 0])

\* the clinch tests: if lead > 0 && lead > remaining / if lead < 0 && -lead > remaining
Team1ClinchesOffByOne(lead, remaining) == lead > 0 /\ lead >= remaining
Team1Clinches(lead, remaining) == lead > 0 /\ lead > remaining
Team2ClinchesOffByOne(lead, remaining) == lead < 0 /\ (0 - lead) >= remaining
Team2Clinches(lead, remaining) == lead < 0 /\ (0 - lead) > remaining

\* the score of a clinched match
ClinchScore(lead, remaining) ==
    IF remaining = 0
    THEN IntToStr(lead) \o " UP"
    ELSE IntToStr(lead) \o " & " \o IntToStr(remaining)

\* if remaining == 0 && lead == 0
TieOnLevel(lead, remaining) == lead = 0
IsTie(lead, remaining) == remaining = 0 /\ lead = 0

\* the running score of a match still in progress
RunningScoreNoLeader(lead, played, team1Name, team2Name) ==
    "A/S thru " \o IntToStr(played)
RunningScore(lead, played, team1Name, team2Name) ==
    IF lead > 0 THEN team1Name \o " " \o IntToStr(lead) \o " UP thru " \o IntToStr(played)
    ELSE IF lead < 0 THEN team2Name \o " " \o IntToStr(0 - lead) \o " UP thru " \o IntToStr(played)
    ELSE "A/S thru " \o IntToStr(played)

\* if played == 0 { return ResultPending, "" }
NothingPlayedByLen(holeResults, played) == Cardinality(DOMAIN holeResults) = 0
NothingPlayed(holeResults, played) == Cardinality(DOMAIN holeResults) = 0 \/ played = 0

CalculateMatchPlayResult(holeResults, team1Name, team2Name) ==
    LET c == CountHoles(holeResults)
        lead == c.t1Wins - c.t2Wins
        remaining == NumHoles - c.played
    IN  IF NothingPlayed(holeResults, c.played)
        THEN [result |-> ResultPending, score |-> ""]
        ELSE IF Team1Clinches(lead, remaining)
        THEN [result |-> ResultTeam1, score |-> ClinchScore(lead, remaining)]
        ELSE IF Team2Clinches(lead, remaining)
        THEN [result |-> ResultTeam2, score |-> ClinchScore(0 - lead, remaining)]
        ELSE IF IsTie(lead, remaining)
        THEN [result |-> ResultTie, score |-> "A/S"]
        ELSE [result |-> ResultPending,
              score |-> RunningScore(lead, c.played, team1Name, team2Name)]

----------------------------------------------------------------------------
(* The calculator applied to bounded inputs *)

NotCalled == [result |-> "", score |-> ""]

\* values a hole may carry in an input map: the three outcomes, "" = no entry,
\* and a value outside the enumeration
RunOutcomes == {"team1", "team2", "halved", "", "bogus"}

\* keys outside holes 1..18
JunkKeys == {0, NumHoles + 1}

\* the value of hole h when holes 1..18 are cut into MaxRuns runs
RunValue(cuts, outs, h) == outs[1 + Cardinality({i \in DOMAIN cuts : cuts[i] < h})]

RunMap(cuts, outs, extra) ==
    [k \in {h \in 1..NumHoles : RunValue(cuts, outs, h) # ""} \cup extra |->
        IF k \in 1..NumHoles THEN RunValue(cuts, outs, k) ELSE "team1"]

CalcNames == {<<"Red", "Blue">>, <<"Blue", "Red">>}

vars == <<cHoles, cNames, cOut, backend, store, now, nextId, last, mu, procs,
          sbIn, sbOut, jsonIn, jsonOut, replicas, mem>>

\* sync.RWMutex: the goroutine holding the write lock ("" for none) and those
\* holding the read lock
Unlocked == [writer |-> "", readers |-> {}]

\* the goroutines serving requests
Procs == {"p1", "p2"}

\* the arguments of one Store call
Req(op, tid, round, match, hole, outcome, score, matches) ==
    [op |-> op, tid |-> tid, round |-> round, match |-> match, hole |-> hole,
     outcome |-> outcome, score |-> score, matches |-> matches]
NoRequest == Req("none", "", 0, "", 0, "", "", <<>>)

\* a goroutine that serves nothing yet
IdleProc == [pc |-> "idle", calls |-> 0, req |-> NoRequest, t |-> <<>>, err |-> ""]
concIdle == <<mu, procs>>

\* no scoreboard is asked for and no document is decoded
boardIdle == <<sbIn, sbOut>>
codecIdle == <<jsonIn, jsonOut>>
equivIdle == <<replicas>>
heapIdle == <<mem>>
NoValue == [none |-> TRUE]
InitNoBoard == sbIn = NoValue /\ sbOut = NoValue
InitNoCodec == jsonIn = NoValue /\ jsonOut = NoValue
InitNoReplicas == replicas = NoValue
InitNoHeap == mem = NoValue

InitCalc ==
    /\ \E cuts \in [1..(MaxRuns - 1) -> 0..NumHoles], outs \in [1..MaxRuns -> RunOutcomes],
          extra \in SUBSET JunkKeys :
            cHoles = RunMap(cuts, outs, extra)
    /\ cNames \in CalcNames
    /\ cOut = NotCalled
    /\ backend = "none"
    /\ store = <<>>
    /\ now = 0
    /\ nextId = 0
    /\ last = [op |-> "none"]
    /\ mu = Unlocked
    /\ procs = [p \in Procs |-> IdleProc]
    /\ InitNoBoard
    /\ InitNoCodec
    /\ InitNoReplicas
    /\ InitNoHeap

Calculate ==
    /\ cOut = NotCalled
    /\ cOut' = CalculateMatchPlayResult(cHoles, cNames[1], cNames[2])
    /\ UNCHANGED <<cHoles, cNames, backend, store, now, nextId, last, concIdle,
                   boardIdle, codecIdle, equivIdle, heapIdle>>

NextCalc == Calculate

SpecCalc == InitCalc /\ [][NextCalc]_vars

----------------------------------------------------------------------------
(* Data model: models.Tournament, Team, Round, Match *)

\* uuid.New().String(): the k-th identifier handed out
Uuid(k) == "u" \o IntToStr(k)

\* models.DefaultRounds; pointsPerMatch is kept in quarter points (1.0 = 4, 0.5 = 2)
DefaultRounds ==
    << [number |-> 1, name |-> "Lauderdale", type |-> "lauderdale", pointsPerMatch |-> 4, matches |-> <<>>],
       [number |-> 2, name |-> "Foursome (Alternate Shot) - Friday PM", type |-> "foursome", pointsPerMatch |-> 2, matches |-> <<>>],
       [number |-> 3, name |-> "Foursome (Alternate Shot) - Saturday AM", type |-> "foursome", pointsPerMatch |-> 2, matches |-> <<>>],
       [number |-> 4, name |-> "Four-Ball", type |-> "fourball", pointsPerMatch |-> 4, matches |-> <<>>],
       [number |-> 5, name |-> "Singles", type |-> "singles", pointsPerMatch |-> 4, matches |-> <<>>] >>

\* Handler.CreateTournament: the tournament handed to Store.CreateTournament
NewTournament(tid, names, id0) ==
    [ id |-> tid,
      name |-> "Cup",
      teams |-> << [id |-> Uuid(id0 + 1), name |-> names[1], players |-> <<>>],
                   [id |-> Uuid(id0 + 2), name |-> names[2], players |-> <<>>] >>,
      rounds |-> DefaultRounds,
      createdAt |-> 0,
      updatedAt |-> 0 ]

\* Handler.SetPairings: one fresh match per requested pairing, result pending,
\* score "", no hole results (a nil slice in handlers.go, an empty map in the
\* later handler)
NewMatchOfRoundOne(roundNum, k) ==
    [ id |-> Uuid(k), roundNumber |-> 1,
      team1Players |-> <<"a">>, team2Players |-> <<"b">>,
      result |-> ResultPending, score |-> "", holeResults |-> <<>> ]
NewMatch(roundNum, k) ==
    [ id |-> Uuid(k), roundNumber |-> roundNum,
      team1Players |-> <<"a">>, team2Players |-> <<"b">>,
      result |-> ResultPending, score |-> "", holeResults |-> <<>> ]

NewMatches(roundNum, n, id0) == [i \in 1..n |-> NewMatch(roundNum, id0 + i)]

\* for i := range t.Rounds { if t.Rounds[i].Number != roundNumber { continue } ...
\* the index of the first round with that number, 0 when there is none
RoundIndexOrLast(t, roundNumber) ==
    LET hits == {i \in 1..Len(t.rounds) : t.rounds[i].number = roundNumber}
    IN  IF hits = {} THEN Len(t.rounds) ELSE CHOOSE i \in hits : \A k \in hits : i <= k
RoundIndex(t, roundNumber) ==
    LET hits == {i \in 1..Len(t.rounds) : t.rounds[i].number = roundNumber}
    IN  IF hits = {} THEN 0 ELSE CHOOSE i \in hits : \A k \in hits : i <= k

\* for j := range t.Rounds[i].Matches { if ...ID == matchID
MatchIndex(round, matchID) ==
    LET hits == {j \in 1..Len(round.matches) : round.matches[j].id = matchID}
    IN  IF hits = {} THEN 0 ELSE CHOOSE j \in hits : \A k \in hits : j <= k

----------------------------------------------------------------------------
(* The scoreboard: Tournament.CalculateScoreboard. Points are kept in quarter *)
(* points, in which the template's 1.0, 0.5 and their halves are 4, 2, 2, 1  *)
(* and every float64 sum the code takes is exact                             *)

\* round.PointsPerMatch / 2
HalfPoints(pointsPerMatch) == pointsPerMatch \div 2

\* rs := RoundScore{RoundNumber: ..., RoundName: ..., PointsPerMatch: ..., TotalMatches: len(round.Matches)}
NewRoundScore(round) ==
    [ roundNumber |-> round.number, roundName |-> round.name,
      team1Points |-> 0, team2Points |-> 0,
      pointsPerMatch |-> round.pointsPerMatch,
      matchesPlayed |-> 0, totalMatches |-> Len(round.matches) ]

\* switch match.Result { case ResultTeam1: ... case ResultTeam2: ... case ResultTie: ... }
CountTieInFull(rs, result) ==
    IF result = ResultTeam1
    THEN [rs EXCEPT !.team1Points = @ + rs.pointsPerMatch, !.matchesPlayed = @ + 1]
    ELSE IF result = ResultTeam2
    THEN [rs EXCEPT !.team2Points = @ + rs.pointsPerMatch, !.matchesPlayed = @ + 1]
    ELSE IF result = ResultTie
    THEN [rs EXCEPT !.team1Points = @ + rs.pointsPerMatch,
                    !.team2Points = @ + rs.pointsPerMatch,
                    !.matchesPlayed = @ + 1]
    ELSE rs
CountPendingAsPlayed(rs, result) ==
    IF result = ResultTeam1
    THEN [rs EXCEPT !.team1Points = @ + rs.pointsPerMatch, !.matchesPlayed = @ + 1]
    ELSE IF result = ResultTeam2
    THEN [rs EXCEPT !.team2Points = @ + rs.pointsPerMatch, !.matchesPlayed = @ + 1]
    ELSE IF result = ResultTie
    THEN [rs EXCEPT !.team1Points = @ + HalfPoints(rs.pointsPerMatch),
                    !.team2Points = @ + HalfPoints(rs.pointsPerMatch),
                    !.matchesPlayed = @ + 1]
    ELSE [rs EXCEPT !.matchesPlayed = @ + 1]
CountMatch(rs, result) ==
    IF result = ResultTeam1
    THEN [rs EXCEPT !.team1Points = @ + rs.pointsPerMatch, !.matchesPlayed = @ + 1]
    ELSE IF result = ResultTeam2
    THEN [rs EXCEPT !.team2Points = @ + rs.pointsPerMatch, !.matchesPlayed = @ + 1]
    ELSE IF result = ResultTie
    THEN [rs EXCEPT !.team1Points = @ + HalfPoints(rs.pointsPerMatch),
                    !.team2Points = @ + HalfPoints(rs.pointsPerMatch),
                    !.matchesPlayed = @ + 1]
    ELSE rs

\* for _, match := range round.Matches { ... }: the matches from position j on
ScoreFirstMatchOnly(matches, j, rs) ==
    IF Len(matches) = 0 THEN rs ELSE CountMatch(rs, matches[1].result)
RECURSIVE ScoreMatches(_, _, _)
ScoreMatches(matches, j, rs) ==
    IF j > Len(matches) THEN rs
    ELSE ScoreMatches(matches, j + 1, CountMatch(rs, matches[j].result))

\* the RoundScore of one round
ScoreRound(round) == ScoreMatches(round.matches, 1, NewRoundScore(round))

\* sb.Team1Total += rs.Team1Points; sb.Team2Total += rs.Team2Points;
\* sb.RoundScores = append(sb.RoundScores, rs)
PrependRound(sb, rs) ==
    [sb EXCEPT !.team1Total = @ + rs.team1Points,
               !.team2Total = @ + rs.team2Points,
               !.roundScores = <<rs>> \o @]
AddRound(sb, rs) ==
    [sb EXCEPT !.team1Total = @ + rs.team1Points,
               !.team2Total = @ + rs.team2Points,
               !.roundScores = Append(@, rs)]

\* for _, round := range t.Rounds { ... }: the rounds from position i on
RECURSIVE ScoreRounds(_, _, _)
ScoreRounds(rounds, i, sb) ==
    IF i > Len(rounds) THEN sb
    ELSE ScoreRounds(rounds, i + 1, AddRound(sb, ScoreRound(rounds[i])))

\* Tournament.CalculateScoreboard
CalculateScoreboard(t) ==
    ScoreRounds(t.rounds, 1,
                [ team1Name |-> t.teams[1].name, team2Name |-> t.teams[2].name,
                  team1Total |-> 0, team2Total |-> 0, roundScores |-> <<>> ])

----------------------------------------------------------------------------
(* Hole-result containers of the three stores and what the calculator sees *)

\* strconv.Itoa(hole): the key of a hole in the map[string]string of FileStore
\* and FirestoreStore
HoleKey(hole) == IntToStr(hole)

\* the decimal keys of the numbers 0..19, and the number fmt.Sscanf(k, "%d", &hole)
\* scans from each
NumericKeys == {IntToStr(n) : n \in 0..(NumHoles + 1)}
ScannedNumber == [k \in NumericKeys |-> CHOOSE n \in 0..(NumHoles + 1) : IntToStr(n) = k]
KeyOfNumber == [n \in 0..(NumHoles + 1) |-> IntToStr(n)]

\* a string-keyed map read by hole number: the key scans as a number and v != ""
ByHoleNumber(m) ==
    [h \in {ScannedNumber[k] : k \in {x \in (DOMAIN m) \cap NumericKeys : m[x] # ""}} |->
        m[KeyOfNumber[h]]]

\* m.HoleResults[i+1] = v for v != "": a hole list read by hole number
ListByHoleNumber(arr) == [h \in {i \in 1..Len(arr) : arr[i] # ""} |-> arr[h]]

\* if result == "" { delete(match.HoleResults, key) } else { match.HoleResults[key] = result }
SetHoleNeverDeletes(holes, key, result) ==
    [k \in (DOMAIN holes) \cup {key} |-> IF k = key THEN result ELSE holes[k]]
SetHoleToggles(holes, key, result) ==
    IF result = "" \/ (key \in DOMAIN holes /\ holes[key] = result)
    THEN [k \in (DOMAIN holes) \ {key} |-> holes[k]]
    ELSE [k \in (DOMAIN holes) \cup {key} |-> IF k = key THEN result ELSE holes[k]]
SetHole(holes, key, result) ==
    IF result = ""
    THEN [k \in (DOMAIN holes) \ {key} |-> holes[k]]
    ELSE [k \in (DOMAIN holes) \cup {key} |-> IF k = key THEN result ELSE holes[k]]

\* for h := 1; h < hole; h++ { if match.HoleResults[k] == "" { ... = "halved" } }
BackfillNothing(holes, hole) == holes
Backfill(holes, hole) ==
    LET before == {HoleKey(h) : h \in 1..(hole - 1)}
    IN  [k \in (DOMAIN holes) \cup before |->
            IF k \in before /\ Lookup(holes, k) = "" THEN "halved" ELSE holes[k]]

\* match.Result, match.Score = models.CalculateMatchPlayResult(...)
KeepResult(match, byNumber, t) == match
RecalculateResultOnly(match, byNumber, t) ==
    [match EXCEPT !.result =
        CalculateMatchPlayResult(byNumber, t.teams[1].name, t.teams[2].name).result]
Recalculate(match, byNumber, t) ==
    LET r == CalculateMatchPlayResult(byNumber, t.teams[1].name, t.teams[2].name)
    IN  [match EXCEPT !.result = r.result, !.score = r.score]

\* FileStore.UpdateHoleResult / FirestoreStore.UpdateHoleResult: the edit of the match
EditHoleByKeySetOnly(match, hole, result, t) ==
    LET holes == SetHole(match.holeResults, HoleKey(hole), result)
    IN  Recalculate([match EXCEPT !.holeResults = holes], ByHoleNumber(holes), t)
EditHoleByKey(match, hole, result, t) ==
    LET holes == Backfill(SetHole(match.holeResults, HoleKey(hole), result), hole)
    IN  Recalculate([match EXCEPT !.holeResults = holes], ByHoleNumber(holes), t)

\* MemoryStore.UpdateHoleResult: the edit of the match; hole is a slice index
EditHoleByIndexNoBackfill(match, hole, result, t) ==
    LET arr0 == IF Len(match.holeResults) = 0
                THEN [i \in 1..NumHoles |-> ""]
                ELSE match.holeResults
        arr1 == [arr0 EXCEPT ![hole + 1] = result]
    IN  Recalculate([match EXCEPT !.holeResults = arr1], ListByHoleNumber(arr1), t)
EditHoleByIndex(match, hole, result, t) ==
    LET arr0 == IF Len(match.holeResults) = 0
                THEN [i \in 1..NumHoles |-> ""]
                ELSE match.holeResults
        arr1 == [arr0 EXCEPT ![hole + 1] = result]
        arr2 == [i \in 1..Len(arr1) |->
                    IF i - 1 < hole /\ arr1[i] = "" THEN "halved" ELSE arr1[i]]
    IN  Recalculate([match EXCEPT !.holeResults = arr2], ListByHoleNumber(arr2), t)

----------------------------------------------------------------------------
(* Storage of the three backends *)

Backends == {"memory", "file", "firestore"}

\* FileStore.path: {dir}/{id}.json (the directory prefix is the same for all)
path(id) == id \o ".json"

\* tmp := f.path(t.ID) + ".tmp"
tmpPathInPlace(id) == path(id)
tmpPath(id) == path(id) \o ".tmp"

\* json.MarshalIndent of a match's HoleResults: a JSON object keyed by hole number
EncodeHolesOmitted(holes) == [kind |-> "absent"]
EncodeHoles(holes) == [kind |-> "object", fields |-> holes]

\* Match.UnmarshalJSON: an absent or null holeResults gives an empty map, an
\* object keeps the entries whose key scans as a number and whose value is not
\* "", a legacy array gives hole i+1 for every non-empty item at Go index i
\* (position i+1 of the sequence here), anything else gives an empty map
DecodeHolesKeepingEmpty(raw) ==
    IF raw.kind \in {"absent", "null"} THEN <<>>
    ELSE IF raw.kind = "object"
    THEN [k \in (DOMAIN raw.fields) \cap NumericKeys |-> raw.fields[k]]
    ELSE IF raw.kind = "array"
    THEN [k \in {KeyOfNumber[i] : i \in 1..Len(raw.items)} |-> raw.items[ScannedNumber[k]]]
    ELSE <<>>
DecodeHolesByIndex(raw) ==
    IF raw.kind \in {"absent", "null"} THEN <<>>
    ELSE IF raw.kind = "object"
    THEN [k \in {x \in (DOMAIN raw.fields) \cap NumericKeys : raw.fields[x] # ""} |->
            raw.fields[k]]
    ELSE IF raw.kind = "array"
    THEN LET ok == {i \in 1..Len(raw.items) : raw.items[i] # ""}
         IN  [k \in {KeyOfNumber[i - 1] : i \in ok} |-> raw.items[ScannedNumber[k] + 1]]
    ELSE <<>>
DecodeHoles(raw) ==
    IF raw.kind \in {"absent", "null"} THEN <<>>
    ELSE IF raw.kind = "object"
    THEN [k \in {x \in (DOMAIN raw.fields) \cap NumericKeys : raw.fields[x] # ""} |->
            raw.fields[k]]
    ELSE IF raw.kind = "array"
    THEN LET ok == {i \in 1..Len(raw.items) : raw.items[i] # ""}
         IN  [k \in {KeyOfNumber[i] : i \in ok} |-> raw.items[ScannedNumber[k]]]
    ELSE <<>>

\* Match.UnmarshalJSON: the other fields are taken as they are and
\* m.HoleResults = make(map[int]string) is filled from the raw holeResults, so
\* the map is never nil
DecodeMatch(doc) ==
    [match |-> [doc EXCEPT !.holeResults = DecodeHoles(doc.holeResults)],
     holesNil |-> FALSE]

\* json.Marshal of a Match
EncodeMatch(match) == [match EXCEPT !.holeResults = EncodeHoles(match.holeResults)]

\* the hole results of a match as the conversion named by how gives them
ConvertHoles(how, holes) ==
    IF how = "encode" THEN EncodeHoles(holes)
    ELSE IF how = "decode" THEN DecodeHoles(holes)
    ELSE [k \in DOMAIN holes |-> holes[k]]

\* for i := range t.Rounds { for j := range t.Rounds[i].Matches { ... } }
MapMatches(t, how) ==
    [t EXCEPT !.rounds =
        [i \in 1..Len(t.rounds) |->
            [t.rounds[i] EXCEPT !.matches =
                [j \in 1..Len(t.rounds[i].matches) |->
                    [t.rounds[i].matches[j] EXCEPT
                        !.holeResults = ConvertHoles(how, t.rounds[i].matches[j].holeResults)]]]]]

\* json.MarshalIndent(t, "", "  ")
EncodeTournament(t) == MapMatches(t, "encode")

\* json.Unmarshal(data, &t)
DecodeTournament(doc) == MapMatches(doc, "decode")

\* FileStore.readTournament
readTournament(fs, id) ==
    IF path(id) \notin DOMAIN fs THEN [err |-> "notfound"]
    ELSE IF ~fs[path(id)].complete THEN [err |-> "storage"]
    ELSE [err |-> "", t |-> DecodeTournament(fs[path(id)].doc)]

Without(f, k) == [x \in (DOMAIN f) \ {k} |-> f[x]]
With(f, k, v) == [x \in (DOMAIN f) \cup {k} |-> IF x = k THEN v ELSE f[x]]

\* data, err := json.MarshalIndent(t); os.WriteFile(tmp, data, 0644): the temporary
\* file holds the whole document, or a part of it when the write fails
WriteTmp(fs, t, ok) ==
    With(fs, tmpPath(t.id),
         IF ok THEN [complete |-> TRUE, doc |-> EncodeTournament(t)]
         ELSE [complete |-> FALSE, doc |-> <<>>])

\* os.Rename(tmp, f.path(t.ID)), and os.Remove(tmp) when it fails
RenameTmpNoRemove(fs, id, ok) ==
    IF ok THEN With(Without(fs, tmpPath(id)), path(id), fs[tmpPath(id)]) ELSE fs
RenameTmp(fs, id, ok) ==
    IF ok THEN With(Without(fs, tmpPath(id)), path(id), fs[tmpPath(id)])
    ELSE Without(fs, tmpPath(id))

\* FileStore.writeTournament; fail names the step that fails: "encode" (MarshalIndent),
\* "write" (os.WriteFile leaves a partly written temporary file), "rename"
\* (os.Rename fails and the temporary file is removed), "none"
writeTournament(fs, t, fail) ==
    IF fail = "encode" THEN [store |-> fs, err |-> "storage"]
    ELSE IF fail = "write" THEN [store |-> WriteTmp(fs, t, FALSE), err |-> "storage"]
    ELSE IF fail = "rename"
    THEN [store |-> RenameTmp(WriteTmp(fs, t, TRUE), t.id, FALSE), err |-> "storage"]
    ELSE [store |-> RenameTmp(WriteTmp(fs, t, TRUE), t.id, TRUE), err |-> ""]

\* normalizeTournament (firestore.go): nil containers become empty ones; both are
\* the empty sequence / empty map here
normalizeTournament(t) == MapMatches(t, "normalize")

\* a stored record that does not decode: a file that is not the JSON of a
\* tournament (json.Unmarshal fails), a document whose fields do not fit the
\* Tournament struct (doc.DataTo fails)
CorruptFile == [complete |-> FALSE, doc |-> <<>>]
CorruptDocument == [corrupt |-> TRUE]

\* doc.DataTo(&t) succeeds
Decodable(doc) == "id" \in DOMAIN doc

\* the steps at which a write can fail in each backend (the handlers' tournaments
\* always encode)
FailPoints ==
    IF backend = "file" THEN {"none", "write", "rename"}
    ELSE IF backend = "firestore" THEN {"none", "set"}
    ELSE {"none"}

\* does a tournament with this id exist: m.tournaments[id] / os.Stat(f.path(id)) / ref.Get
Exists(st, id) ==
    IF backend = "file" THEN path(id) \in DOMAIN st ELSE id \in DOMAIN st

\* the load of a read-modify-write: m.tournaments[id] / readTournament / getTournamentForUpdate
Load(st, id) ==
    IF backend = "file" THEN readTournament(st, id)
    ELSE IF id \notin DOMAIN st THEN [err |-> "notfound"]
    ELSE IF backend = "firestore"
    THEN IF Decodable(st[id]) THEN [err |-> "", t |-> normalizeTournament(st[id])]
         ELSE [err |-> "storage"]
    ELSE [err |-> "", t |-> st[id]]

\* the write: the map entry / writeTournament / ref.Set
Save(st, t, fail) ==
    IF backend = "file" THEN writeTournament(st, t, fail)
    ELSE IF fail # "none" THEN [store |-> st, err |-> "storage"]
    ELSE [store |-> With(st, t.id, t), err |-> ""]

\* delete(m.tournaments, id) / os.Remove(p) / ref.Delete
Remove(st, id, fail) ==
    IF fail # "none" THEN [store |-> st, err |-> "storage"]
    ELSE IF backend = "file" THEN [store |-> Without(st, path(id)), err |-> ""]
    ELSE [store |-> Without(st, id), err |-> ""]

----------------------------------------------------------------------------
(* The Store operations: what each does to a loaded tournament, and the whole *)
(* read-modify-write                                                          *)

\* the hole argument a handler passes to Store.UpdateHoleResult for hole number h:
\* handlers.go passes holeNum-1 to the MemoryStore's slice index, the later
\* handler passes holeNum to the keyed stores
HoleArgument(h) == IF backend = "memory" THEN h - 1 ELSE h

\* UpdateMatchResult: the loops over rounds and matches and the assignment
ModUpdateWholeRound(t, roundNumber, matchID, result, score, time) ==
    LET i == RoundIndex(t, roundNumber)
        j == IF i = 0 THEN 0 ELSE MatchIndex(t.rounds[i], matchID)
    IN  IF i = 0 THEN [err |-> "roundnotfound", t |-> t]
        ELSE IF j = 0 THEN [err |-> "matchnotfound", t |-> t]
        ELSE [err |-> "",
              t |-> [t EXCEPT !.rounds[i].matches =
                                  [k \in 1..Len(t.rounds[i].matches) |->
                                      [t.rounds[i].matches[k] EXCEPT !.result = result,
                                                                     !.score = score]],
                              !.updatedAt = time]]
ModUpdateMatchResult(t, roundNumber, matchID, result, score, time) ==
    LET i == RoundIndex(t, roundNumber)
        j == IF i = 0 THEN 0 ELSE MatchIndex(t.rounds[i], matchID)
    IN  IF i = 0 THEN [err |-> "roundnotfound", t |-> t]
        ELSE IF j = 0 THEN [err |-> "matchnotfound", t |-> t]
        ELSE [err |-> "",
              t |-> [t EXCEPT !.rounds[i].matches[j].result = result,
                              !.rounds[i].matches[j].score = score,
                              !.updatedAt = time]]

\* SetRoundPairings: t.Rounds[i].Matches = matches
ModAppendPairings(t, roundNumber, matches, time) ==
    LET i == RoundIndex(t, roundNumber)
    IN  IF i = 0 THEN [err |-> "roundnotfound", t |-> t]
        ELSE [err |-> "",
              t |-> [t EXCEPT !.rounds[i].matches = t.rounds[i].matches \o matches,
                              !.updatedAt = time]]
ModSetRoundPairings(t, roundNumber, matches, time) ==
    LET i == RoundIndex(t, roundNumber)
    IN  IF i = 0 THEN [err |-> "roundnotfound", t |-> t]
        ELSE [err |-> "",
              t |-> [t EXCEPT !.rounds[i].matches = matches, !.updatedAt = time]]

\* UpdateHoleResult: the loops over rounds and matches and the edit of the match
ModUpdateHoleResult(t, roundNumber, matchID, hole, result, time) ==
    LET i == RoundIndex(t, roundNumber)
        j == IF i = 0 THEN 0 ELSE MatchIndex(t.rounds[i], matchID)
    IN  IF i = 0 THEN [err |-> "roundnotfound", t |-> t]
        ELSE IF j = 0 THEN [err |-> "matchnotfound", t |-> t]
        ELSE LET match == t.rounds[i].matches[j]
                 edited == IF backend = "memory"
                           THEN EditHoleByIndex(match, hole, result, t)
                           ELSE EditHoleByKey(match, hole, result, t)
             IN  [err |-> "",
                  t |-> [t EXCEPT !.rounds[i].matches[j] = edited, !.updatedAt = time]]

\* what a match operation does to the tournament it loaded; hole is the hole
\* argument the store receives
Modified(r, t, time) ==
    IF r.op = "hole"
    THEN ModUpdateHoleResult(t, r.round, r.match, r.hole, r.outcome, time)
    ELSE IF r.op = "override"
    THEN ModUpdateMatchResult(t, r.round, r.match, r.outcome, r.score, time)
    ELSE ModSetRoundPairings(t, r.round, r.matches, time)

\* the outcome of a write that was attempted
Stamped(w) == [store |-> w.store, err |-> w.err, stamped |-> TRUE]

\* lock; load; modify; write; unlock, run without interruption (each stage is
\* a one-element set so that it is computed once)
ReadModifyWrite(st, r, time, fail) ==
    LET loaded == {Load(st, r.tid)}
        modified == {IF l.err # "" THEN l ELSE Modified(r, l.t, time) : l \in loaded}
        saved == {IF m.err # "" THEN [store |-> st, err |-> m.err, stamped |-> FALSE]
                  ELSE Stamped(Save(st, m.t, fail)) : m \in modified}
    IN  CHOOSE w \in saved : TRUE

\* Store.CreateTournament
CreateTournamentOverwrites(st, t, time, fail) ==
    LET w == Save(st, [t EXCEPT !.createdAt = time], fail)
    IN  [store |-> w.store, err |-> w.err, stamped |-> TRUE]
CreateTournament(st, t, time, fail) ==
    IF Exists(st, t.id) THEN [store |-> st, err |-> "conflict", stamped |-> FALSE]
    ELSE LET w == Save(st, [t EXCEPT !.createdAt = time, !.updatedAt = time], fail)
         IN  [store |-> w.store, err |-> w.err, stamped |-> TRUE]

\* Store.UpdateTournament
UpdateTournamentUnstamped(st, t, time, fail) ==
    IF ~Exists(st, t.id) THEN [store |-> st, err |-> "notfound", stamped |-> FALSE]
    ELSE LET w == Save(st, t, fail)
         IN  [store |-> w.store, err |-> w.err, stamped |-> TRUE]
UpdateTournament(st, t, time, fail) ==
    IF ~Exists(st, t.id) THEN [store |-> st, err |-> "notfound", stamped |-> FALSE]
    ELSE LET w == Save(st, [t EXCEPT !.updatedAt = time], fail)
         IN  [store |-> w.store, err |-> w.err, stamped |-> TRUE]

\* Store.DeleteTournament
DeleteTournamentQuiet(st, id, fail) ==
    LET w == Remove(st, id, fail)
    IN  [store |-> w.store, err |-> w.err, stamped |-> FALSE]
DeleteTournament(st, id, fail) ==
    IF ~Exists(st, id) THEN [store |-> st, err |-> "notfound", stamped |-> FALSE]
    ELSE LET w == Remove(st, id, fail)
         IN  [store |-> w.store, err |-> w.err, stamped |-> FALSE]

\* Store.GetTournament
GetTournament(st, id) == Load(st, id)

\* Store.UpdateMatchResult
UpdateMatchResult(st, id, roundNumber, matchID, result, score, time, fail) ==
    ReadModifyWrite(st, Req("override", id, roundNumber, matchID, 0, result, score, <<>>), time, fail)

\* Store.SetRoundPairings
SetRoundPairings(st, id, roundNumber, matches, time, fail) ==
    ReadModifyWrite(st, Req("pairings", id, roundNumber, "", 0, "", "", matches), time, fail)

\* Store.UpdateHoleResult
UpdateHoleResult(st, id, roundNumber, matchID, hole, result, time, fail) ==
    ReadModifyWrite(st, Req("hole", id, roundNumber, matchID, hole, result, "", <<>>), time, fail)

\* FileStore.usersPath: the file of the same directory that holds the
\* registered users
usersPath == path("_users")

\* the names a directory entry can have without its ".json" extension: the ids
\* of tournaments and the users file's name; every other entry (the ".tmp"
\* siblings) has another extension
Stems == {"t1", "t2", "_users"}

\* strings.HasPrefix(entry.Name(), "_")
HasUnderscorePrefix(stem) == stem \in {"_users"}

\* the entries of the directory that ListTournaments reads as tournaments:
\* filepath.Ext(name) == ".json", no "_" prefix; id is the name without ".json"
ScannedStems(fs) == {id \in Stems : path(id) \in DOMAIN fs /\ ~HasUnderscorePrefix(id)}

\* the steps at which a listing can fail: os.ReadDir / iter.Next return an error
ListFailPoints == IF backend = "memory" THEN {"none"} ELSE {"none", "scan"}

\* what the scan reads from each record it takes for a tournament: the result
\* of f.readTournament(id) / doc.DataTo(&t) and normalizeTournament / the map's value
Records(st) ==
    IF backend = "file" THEN {readTournament(st, id) : id \in ScannedStems(st)}
    ELSE IF backend = "firestore"
    THEN {IF Decodable(st[id]) THEN [err |-> "", t |-> normalizeTournament(st[id])]
          ELSE [err |-> "storage"] : id \in DOMAIN st}
    ELSE {[err |-> "", t |-> st[id]] : id \in DOMAIN st}

\* tournaments := make([]*models.Tournament, 0); for ... { if err != nil { continue };
\* tournaments = append(tournaments, t) }; return tournaments, nil
CollectNilWhenEmpty(records) ==
    [err |-> "", isNil |-> \A r \in records : r.err # "",
     items |-> {r.t : r \in {x \in records : x.err = ""}}]
CollectOrAbort(records) ==
    IF \E r \in records : r.err # ""
    THEN [err |-> "storage", isNil |-> TRUE, items |-> {}]
    ELSE [err |-> "", isNil |-> FALSE, items |-> {r.t : r \in records}]
Collect(records) ==
    [err |-> "", isNil |-> FALSE, items |-> {r.t : r \in {x \in records : x.err = ""}}]

\* Store.ListTournaments: the error, whether the slice returned is nil, and the
\* tournaments in it (their order is left out)
ListTournaments(st, fail) ==
    IF fail = "scan" THEN [err |-> "storage", isNil |-> TRUE, items |-> {}]
    ELSE Collect(Records(st))

\* Handler.UpdateTournament: the tournament read back with the team names of the request
RenameTeams(t, names) ==
    [t EXCEPT !.teams[1].name = names[1], !.teams[2].name = names[2]]

----------------------------------------------------------------------------
(* One store instance driven by one caller at a time *)

TIDs == {"t1"}
NamePairs == {<<"Red", "Blue">>, <<"Blue", "Red">>}
RoundInputs == {1, 2, 6}
HoleInputs == (1..MaxLowHole) \cup {NumHoles}
OutcomeInputs == {"team1", "team2", "halved", ""}

\* the matches a store holds as <<round number, match id>>, and with them a
\* match id no round has, in a round that exists and in one that does not
MatchesOf(t) ==
    UNION {{<<t.rounds[i].number, t.rounds[i].matches[j].id>> : j \in 1..Len(t.rounds[i].matches)} :
              i \in 1..Len(t.rounds)}
MatchInputs ==
    {<<1, "nope">>, <<6, "nope">>}
        \cup UNION {LET g == GetTournament(store, tid)
                    IN IF g.err = "" THEN MatchesOf(g.t) ELSE {} : tid \in TIDs}
OverrideInputs ==
    {<<ResultPending, "">>, <<ResultTeam1, "2 & 1">>, <<ResultTeam2, "1 UP">>, <<ResultTie, "A/S">>}

calcIdle == <<cHoles, cNames, cOut, boardIdle, codecIdle, equivIdle, heapIdle>>

\* the record of a call: its arguments when it succeeded, its error otherwise
Called0(op, tid, round, match, hole, outcome, err) ==
    IF err = ""
    THEN [op |-> op, tid |-> tid, round |-> round, match |-> match, hole |-> hole,
          outcome |-> outcome, err |-> err]
    ELSE [op |-> op, tid |-> tid, round |-> 0, match |-> "", hole |-> 0,
          outcome |-> "", err |-> err]

\* the record of a successful call on a round or a match, with the matches it
\* replaced (the match before a hole edit or an override, the round's match
\* list before new pairings)
Called1(op, tid, round, match, hole, outcome, score, err, before) ==
    IF err = ""
    THEN [op |-> op, tid |-> tid, round |-> round, match |-> match, hole |-> hole,
          outcome |-> outcome, score |-> score, err |-> err, before |-> before]
    ELSE Called0(op, tid, round, match, hole, outcome, err)

\* the matches of round roundNumber of the stored tournament, <<>> without one
MatchesBefore(st, tid, roundNumber) ==
    LET g == GetTournament(st, tid)
        i == IF g.err = "" THEN RoundIndex(g.t, roundNumber) ELSE 0
    IN  IF i = 0 THEN <<>> ELSE g.t.rounds[i].matches

\* the stored match matchID of that round, as a list of one or none
MatchBefore(st, tid, roundNumber, matchID) ==
    LET ms == MatchesBefore(st, tid, roundNumber)
    IN  SelectSeq(ms, LAMBDA m : m.id = matchID)

Init ==
    /\ backend \in Backends
    /\ store = <<>>
    /\ now = 1
    /\ nextId = 0
    /\ last = Called0("none", "", 0, "", 0, "", "")
    /\ cHoles = <<>>
    /\ cNames = <<"Red", "Blue">>
    /\ cOut = NotCalled
    /\ mu = Unlocked
    /\ procs = [p \in Procs |-> IdleProc]
    /\ InitNoBoard
    /\ InitNoCodec
    /\ InitNoReplicas
    /\ InitNoHeap

\* the clock has moved on when the next stamp is taken
Tick(r) == now' = IF r.stamped /\ r.err = "" THEN now + 1 ELSE now

\* n more identifiers are in use once the values holding them are stored
Allocated(r, n) == nextId' = IF r.err = "" THEN nextId + n ELSE nextId

\* POST /api/tournaments
Create(tid, names, fail) ==
    /\ now < MaxTime
    /\ nextId + 2 <= MaxIds
    /\ \E r \in {CreateTournament(store, NewTournament(tid, names, nextId), now, fail)} :
           /\ store' = r.store
           /\ Tick(r)
           /\ Allocated(r, 2)
           /\ last' = Called0("create", tid, 0, "", 0, "", r.err)
    /\ UNCHANGED <<backend, calcIdle, concIdle>>

\* PUT /api/tournaments/{id}: get, rename the teams, update-whole
UpdateWhole(tid, names, fail) ==
    /\ now < MaxTime
    /\ \E g \in {GetTournament(store, tid)} :
           IF g.err # ""
           THEN /\ last' = Called0("update", tid, 0, "", 0, "", g.err)
                /\ UNCHANGED <<store, now>>
           ELSE \E r \in {UpdateTournament(store, RenameTeams(g.t, names), now, fail)} :
                    /\ store' = r.store
                    /\ Tick(r)
                    /\ last' = Called0("update", tid, 0, "", 0, "", r.err)
    /\ UNCHANGED <<backend, nextId, calcIdle, concIdle>>

\* DELETE /api/tournaments/{id}
Delete(tid, fail) ==
    /\ \E r \in {DeleteTournament(store, tid, fail)} :
           /\ store' = r.store
           /\ last' = Called0("delete", tid, 0, "", 0, "", r.err)
    /\ UNCHANGED <<backend, now, nextId, calcIdle, concIdle>>

\* GET /api/tournaments/{id}
Get(tid) ==
    /\ last' = Called0("get", tid, 0, "", 0, "", GetTournament(store, tid).err)
    /\ UNCHANGED <<backend, store, now, nextId, calcIdle, concIdle>>

\* PUT /api/tournaments/{id}/rounds/{round}/pairings
SetPairings(tid, round, n, fail) ==
    /\ now < MaxTime
    /\ nextId + n <= MaxIds
    /\ \E r \in {SetRoundPairings(store, tid, round, NewMatches(round, n, nextId), now, fail)} :
           /\ store' = r.store
           /\ Tick(r)
           /\ Allocated(r, n)
           /\ last' = Called1("pairings", tid, round, "", 0, "", "", r.err,
                               MatchesBefore(store, tid, round))
    /\ UNCHANGED <<backend, calcIdle, concIdle>>

\* PUT /api/tournaments/{id}/rounds/{round}/matches/{matchId}
OverrideResult(tid, round, mid, res, fail) ==
    /\ now < MaxTime
    /\ \E r \in {UpdateMatchResult(store, tid, round, mid, res[1], res[2], now, fail)} :
           /\ store' = r.store
           /\ Tick(r)
           /\ last' = Called1("override", tid, round, mid, 0, res[1], res[2], r.err,
                               MatchBefore(store, tid, round, mid))
    /\ UNCHANGED <<backend, nextId, calcIdle, concIdle>>

\* PUT /api/tournaments/{id}/rounds/{round}/matches/{matchId}/holes/{hole}
SetHoleResult(tid, round, mid, h, outcome, fail) ==
    /\ now < MaxTime
    /\ \E r \in {UpdateHoleResult(store, tid, round, mid, HoleArgument(h), outcome, now, fail)} :
           /\ store' = r.store
           /\ Tick(r)
           /\ last' = Called1("hole", tid, round, mid, h, outcome, "", r.err,
                               MatchBefore(store, tid, round, mid))
    /\ UNCHANGED <<backend, nextId, calcIdle, concIdle>>

DerivedOps ==
    \/ \E tid \in TIDs, names \in NamePairs, fail \in FailPoints : Create(tid, names, fail)
    \/ \E tid \in TIDs, fail \in FailPoints : Delete(tid, fail)
    \/ \E tid \in TIDs : Get(tid)
    \/ \E tid \in TIDs, round \in RoundInputs, n \in 1..MaxMatches, fail \in FailPoints :
          SetPairings(tid, round, n, fail)
    \/ \E tid \in TIDs, m \in MatchInputs, h \in HoleInputs,
          outcome \in OutcomeInputs, fail \in FailPoints :
          SetHoleResult(tid, m[1], m[2], h, outcome, fail)

DirectOps ==
    \/ \E tid \in TIDs, names \in NamePairs, fail \in FailPoints : UpdateWhole(tid, names, fail)
    \/ \E tid \in TIDs, m \in MatchInputs, res \in OverrideInputs, fail \in FailPoints :
          OverrideResult(tid, m[1], m[2], res, fail)

Next == DerivedOps \/ DirectOps

Spec == Init /\ [][Next]_vars

----------------------------------------------------------------------------
(* One store instance holding up to two tournaments, listed, and stored records *)
(* that have become undecodable                                               *)

ListIds == {"t1", "t2"}

\* GET /api/tournaments
List(fail) ==
    /\ \E r \in {ListTournaments(store, fail)} :
           last' = [op |-> "list", tid |-> "", fail |-> fail, err |-> r.err,
                    isNil |-> r.isNil, items |-> r.items]
    /\ UNCHANGED <<backend, store, now, nextId, calcIdle, concIdle>>

\* the stored record of tournament tid is damaged outside the program: the file
\* or the document is there and no longer decodes
Corrupt(tid) ==
    /\ backend # "memory"
    /\ Exists(store, tid)
    /\ store' = IF backend = "file" THEN With(store, path(tid), CorruptFile)
                ELSE With(store, tid, CorruptDocument)
    /\ last' = Called0("corrupt", tid, 0, "", 0, "", "")
    /\ UNCHANGED <<backend, now, nextId, calcIdle, concIdle>>

\* FileStore.RegisterUser: the users file is written into the tournaments' directory
RegisterUser ==
    /\ backend = "file"
    /\ store' = With(store, usersPath, [complete |-> TRUE, doc |-> <<>>])
    /\ last' = Called0("register", "", 0, "", 0, "", "")
    /\ UNCHANGED <<backend, now, nextId, calcIdle, concIdle>>

NextList ==
    \/ \E tid \in ListIds, names \in NamePairs, fail \in FailPoints : Create(tid, names, fail)
    \/ \E tid \in ListIds, names \in NamePairs, fail \in FailPoints : UpdateWhole(tid, names, fail)
    \/ \E tid \in ListIds, fail \in FailPoints : Delete(tid, fail)
    \/ \E tid \in ListIds : Get(tid)
    \/ \E fail \in ListFailPoints : List(fail)
    \/ \E tid \in ListIds : Corrupt(tid)
    \/ RegisterUser

SpecList == Init /\ [][NextList]_vars

----------------------------------------------------------------------------
(* The scoreboard of one tournament: GET /api/tournaments/{id}/scoreboard on *)
(* a tournament whose matches have any results                               *)

MatchResults == {ResultPending, ResultTeam1, ResultTeam2, ResultTie}

\* the results of the matches of a round, in the order of its match list
ResultLists(n) == UNION {[1..k -> MatchResults] : k \in 0..n}

\* a round's match list with these results; the k-th match of round r has its own id
MatchesWith(roundNum, results) ==
    [k \in 1..Len(results) |->
        [NewMatch(roundNum, 10 * roundNum + k) EXCEPT !.result = results[k]]]

\* the tournament with these results in rounds 1, 2 and 5
BoardTournament(r1, r2, r5) ==
    [NewTournament("t1", <<"Red", "Blue">>, 0) EXCEPT
        !.rounds[1].matches = MatchesWith(1, r1),
        !.rounds[2].matches = MatchesWith(2, r2),
        !.rounds[5].matches = MatchesWith(5, r5)]

InitBoard ==
    /\ \E r1 \in ResultLists(MaxBoardMatches), r2 \in ResultLists(MaxBoardMatches),
          r5 \in {<<>>, <<ResultTie>>, <<ResultTeam2>>} :
            sbIn = BoardTournament(r1, r2, r5)
    /\ sbOut = NoValue
    /\ cHoles = <<>>
    /\ cNames = <<"Red", "Blue">>
    /\ cOut = NotCalled
    /\ backend = "none"
    /\ store = <<>>
    /\ now = 0
    /\ nextId = 0
    /\ last = [op |-> "none"]
    /\ mu = Unlocked
    /\ procs = [p \in Procs |-> IdleProc]
    /\ InitNoCodec
    /\ InitNoReplicas
    /\ InitNoHeap

\* Handler.GetScoreboard: scoreboard := t.CalculateScoreboard(); the method
\* assigns to no field of t
GetScoreboard ==
    /\ sbOut = NoValue
    /\ sbOut' = [board |-> CalculateScoreboard(sbIn), t |-> sbIn]
    /\ UNCHANGED <<sbIn, cHoles, cNames, cOut, codecIdle, equivIdle, heapIdle, backend, store, now, nextId,
                   last, concIdle>>

NextBoard == GetScoreboard

SpecBoard == InitBoard /\ [][NextBoard]_vars

----------------------------------------------------------------------------
(* The decoding of one stored match: json.Unmarshal of a match document in  *)
(* the legacy array form, in the map form, or without hole results, and its *)
(* encoding in the current form                                             *)

\* the values an item or a field of a stored holeResults has
StoredOutcomes == {"", "team1", "halved"}

\* a legacy array of n items: a items, then b items, then c items
ArrayOf(n, c1, c2, a, b, c) ==
    [i \in 1..n |-> IF i <= c1 THEN a ELSE IF i <= c2 THEN b ELSE c]
LegacyArrays ==
    {ArrayOf(n, c1, c2, a, b, c) :
        n \in (0..MaxShortArray) \cup {NumHoles}, c1 \in 0..NumHoles, c2 \in 0..NumHoles,
        a \in StoredOutcomes, b \in StoredOutcomes, c \in StoredOutcomes}

\* the keys a stored object has: hole numbers, 0 and 19, and a key that is no number
ObjectKeys == {"0", "1", "2", "18", "19", "x"}
Objects == UNION {[keys -> StoredOutcomes] : keys \in SUBSET ObjectKeys}

\* the raw holeResults of a stored match
RawHoleResults ==
    {[kind |-> "absent"], [kind |-> "null"], [kind |-> "other"]}
        \cup {[kind |-> "array", items |-> a] : a \in LegacyArrays}
        \cup {[kind |-> "object", fields |-> o] : o \in Objects}

\* the stored document of a match
MatchDocument(raw) ==
    [NewMatch(1, 1) EXCEPT !.result = ResultTeam1, !.score = "1 UP", !.holeResults = raw]

InitCodec ==
    /\ \E raw \in RawHoleResults : jsonIn = MatchDocument(raw)
    /\ jsonOut = NoValue
    /\ cHoles = <<>>
    /\ cNames = <<"Red", "Blue">>
    /\ cOut = NotCalled
    /\ backend = "none"
    /\ store = <<>>
    /\ now = 0
    /\ nextId = 0
    /\ last = [op |-> "none"]
    /\ mu = Unlocked
    /\ procs = [p \in Procs |-> IdleProc]
    /\ InitNoBoard
    /\ InitNoReplicas
    /\ InitNoHeap

codecRest == <<cHoles, cNames, cOut, boardIdle, equivIdle, heapIdle, backend, store, now, nextId, last, concIdle>>

\* json.Unmarshal(data, &match): Match.UnmarshalJSON
UnmarshalJSON ==
    /\ jsonOut = NoValue
    /\ jsonOut' = DecodeMatch(jsonIn)
    /\ UNCHANGED <<jsonIn, codecRest>>

\* json.MarshalIndent of the decoded match: the record is written back in the
\* current form and is then the one to decode
MarshalJSON ==
    /\ jsonOut # NoValue
    /\ jsonIn' = EncodeMatch(jsonOut.match)
    /\ jsonOut' = NoValue
    /\ UNCHANGED codecRest

NextCodec == UnmarshalJSON \/ MarshalJSON

SpecCodec == InitCodec /\ [][NextCodec]_vars


----------------------------------------------------------------------------
(* One store instance serving two goroutines: every Store call is a sequence *)
(* of steps (lock, load, write, rename, unlock) that interleave with the     *)
(* other goroutine's                                                         *)

\* the store the goroutines start from: tournament t1 with two matches in round 1
ConcMatchIds == {Uuid(3), Uuid(4)}
ConcStore ==
    LET s0 == CreateTournament(<<>>, NewTournament("t1", <<"Red", "Blue">>, 0), 1, "none").store
    IN  SetRoundPairings(s0, "t1", 1, NewMatches(1, 2, 2), 2, "none").store

ConcOutcomes == {"team1", "team2"}

\* the calls a goroutine may be asked to serve
ConcRequests ==
    {Req("hole", "t1", 1, m, 1, o, "", <<>>) : m \in ConcMatchIds, o \in ConcOutcomes}
        \cup {Req("override", "t1", 1, Uuid(3), 0, ResultTeam2, "1 UP", <<>>),
              Req("pairings", "t1", 2, "", 0, "", "", NewMatches(2, 1, nextId)),
              Req("create", "t2", 0, "", 0, "", "", <<>>),
              Req("delete", "t1", 0, "", 0, "", "", <<>>),
              Req("get", "t1", 0, "", 0, "", "", <<>>),
              Req("get", "t2", 0, "", 0, "", "", <<>>)}

Mutating(r) == r.op \in {"hole", "override", "pairings", "create", "delete"}

\* FirestoreStore has no mutex: its calls go straight to the document
HasLock == backend \in {"memory", "file"}
EntryPc == IF HasLock THEN "lock" ELSE "read"
ExitPc == IF HasLock THEN "unlock" ELSE "done"

InitConc ==
    /\ backend \in Backends
    /\ store = ConcStore
    /\ now = 3
    /\ nextId = 4
    /\ last = Called0("none", "", 0, "", 0, "", "")
    /\ cHoles = <<>>
    /\ cNames = <<"Red", "Blue">>
    /\ cOut = NotCalled
    /\ mu = Unlocked
    /\ procs = [p \in Procs |-> IdleProc]
    /\ InitNoBoard
    /\ InitNoCodec
    /\ InitNoReplicas
    /\ InitNoHeap

seqIdle == <<backend, last, calcIdle>>

\* the call is left with its result; the deferred unlock is still to run
ReturnsLockedOnError(p, err) ==
    procs' = [procs EXCEPT ![p].pc = IF err = "" THEN ExitPc ELSE "done",
                           ![p].t = <<>>, ![p].err = err]
Returns(p, err) ==
    procs' = [procs EXCEPT ![p].pc = ExitPc, ![p].t = <<>>, ![p].err = err]

\* a handler calls the store, with the tournament or the matches it has built
Begin(p, r) ==
    /\ procs[p].pc \in {"idle", "done"}
    /\ procs[p].calls < MaxCalls
    /\ procs' = [procs EXCEPT ![p] =
            [pc |-> EntryPc, calls |-> procs[p].calls + 1, req |-> r, err |-> "",
             t |-> IF r.op = "create"
                   THEN NewTournament(r.tid, <<"Red", "Blue">>, nextId)
                   ELSE <<>>]]
    /\ nextId' = nextId + (IF r.op = "create" THEN 2 ELSE Len(r.matches))
    /\ UNCHANGED <<store, now, mu, seqIdle>>

\* mu.Lock() of a mutating call, mu.RLock() of a read
AcquireUnlessSameTournament(p) ==
    /\ procs[p].pc = "lock"
    /\ \A q \in Procs \ {p} :
           (mu.writer = q \/ q \in mu.readers) => procs[q].req.tid # procs[p].req.tid
    /\ mu' = [mu EXCEPT !.readers = @ \cup {p}]
    /\ procs' = [procs EXCEPT ![p].pc = "read"]
    /\ UNCHANGED <<store, now, nextId, seqIdle>>
Acquire(p) ==
    /\ procs[p].pc = "lock"
    /\ mu.writer = ""
    /\ IF Mutating(procs[p].req)
       THEN /\ mu.readers = {}
            /\ mu' = [mu EXCEPT !.writer = p]
       ELSE mu' = [mu EXCEPT !.readers = @ \cup {p}]
    /\ procs' = [procs EXCEPT ![p].pc = "read"]
    /\ UNCHANGED <<store, now, nextId, seqIdle>>

\* the call's read of storage, and what it computes from it: the existence test
\* of create and delete, the load of get and of the match operations
LoadStep(p) ==
    LET r == procs[p].req
        l == Load(store, r.tid)
    IN  /\ procs[p].pc = "read"
        /\ IF r.op = "get"
           THEN Returns(p, l.err) /\ now' = now
           ELSE IF r.op = "create"
           THEN IF Exists(store, r.tid)
                THEN Returns(p, "conflict") /\ now' = now
                ELSE /\ procs' = [procs EXCEPT ![p].pc = "write",
                          ![p].t = [procs[p].t EXCEPT !.createdAt = now, !.updatedAt = now]]
                     /\ now' = now + 1
           ELSE IF r.op = "delete"
           THEN IF ~Exists(store, r.tid)
                THEN Returns(p, "notfound") /\ now' = now
                ELSE procs' = [procs EXCEPT ![p].pc = "write"] /\ now' = now
           ELSE IF l.err # ""
           THEN Returns(p, l.err) /\ now' = now
           ELSE LET m == Modified([r EXCEPT !.hole = HoleArgument(r.hole)], l.t, now)
                IN  IF m.err # ""
                    THEN Returns(p, m.err) /\ now' = now
                    ELSE /\ procs' = [procs EXCEPT ![p].pc = "write", ![p].t = m.t]
                         /\ now' = now + 1
        /\ UNCHANGED <<store, nextId, mu, seqIdle>>

\* the steps at which the write of a goroutine can fail
WriteFails ==
    IF backend = "file" THEN {"none", "encode", "write"}
    ELSE IF backend = "firestore" THEN {"none", "set"}
    ELSE {"none"}

\* the call's write: the map entry, ref.Set, os.Remove, or the temporary file of
\* writeTournament
WriteStep(p, fail) ==
    LET r == procs[p].req
    IN  /\ procs[p].pc = "write"
        /\ IF r.op = "delete"
           THEN /\ fail \in {"none", "set"}
                /\ LET w == Remove(store, r.tid, fail)
                   IN  store' = w.store /\ Returns(p, w.err)
           ELSE IF backend = "file"
           THEN IF fail = "encode"
                THEN store' = store /\ Returns(p, "storage")
                ELSE IF fail = "write"
                THEN store' = WriteTmp(store, procs[p].t, FALSE) /\ Returns(p, "storage")
                ELSE /\ store' = WriteTmp(store, procs[p].t, TRUE)
                     /\ procs' = [procs EXCEPT ![p].pc = "rename"]
           ELSE LET w == Save(store, procs[p].t, fail)
                IN  store' = w.store /\ Returns(p, w.err)
        /\ UNCHANGED <<now, nextId, mu, seqIdle>>

\* os.Rename of writeTournament
RenameStep(p, ok) ==
    /\ procs[p].pc = "rename"
    /\ store' = RenameTmp(store, procs[p].req.tid, ok)
    /\ Returns(p, IF ok THEN "" ELSE "storage")
    /\ UNCHANGED <<now, nextId, mu, seqIdle>>

\* the deferred mu.Unlock() / mu.RUnlock()
Release(p) ==
    /\ procs[p].pc = "unlock"
    /\ mu' = IF mu.writer = p THEN [mu EXCEPT !.writer = ""]
             ELSE [mu EXCEPT !.readers = @ \ {p}]
    /\ procs' = [procs EXCEPT ![p].pc = "done"]
    /\ UNCHANGED <<store, now, nextId, seqIdle>>

NextConc ==
    \/ \E p \in Procs, r \in ConcRequests : Begin(p, r)
    \/ \E p \in Procs : Acquire(p)
    \/ \E p \in Procs : LoadStep(p)
    \/ \E p \in Procs, fail \in WriteFails : WriteStep(p, fail)
    \/ \E p \in Procs, ok \in BOOLEAN : RenameStep(p, ok)
    \/ \E p \in Procs : Release(p)

SpecConc == InitConc /\ [][NextConc]_vars

\* the next step of the Store call goroutine p is in, its load apart: taking the
\* lock when it is free, the write, the rename, the deferred unlock
Proceed(p) ==
    \/ Acquire(p)
    \/ \E fail \in WriteFails : WriteStep(p, fail)
    \/ \E ok \in BOOLEAN : RenameStep(p, ok)
    \/ Release(p)

\* the Go scheduler runs every goroutine that can run: a call whose next step
\* stays possible takes it (a goroutine serves MaxCalls calls, so a lock that is
\* asked for is not taken by others for ever). The load is possible exactly at
\* position "read" and every load leaves that position, so weak fairness of
\* LoadStep(p) is that p is not at "read" for ever.
FairConc ==
    \A p \in Procs : WF_vars(Proceed(p)) /\ []<>(procs[p].pc # "read")

SpecConcFair == InitConc /\ [][NextConc]_vars /\ FairConc

----------------------------------------------------------------------------
(* Properties of the calculator, stated over counts taken directly from the *)
(* input map                                                                *)

HolesWith(m, v) == {h \in 1..NumHoles : Lookup(m, h) = v}
WinsOf1(m) == Cardinality(HolesWith(m, "team1"))
WinsOf2(m) == Cardinality(HolesWith(m, "team2"))
PlayedOf(m) == WinsOf1(m) + WinsOf2(m) + Cardinality(HolesWith(m, "halved"))
LeadOf(m) == WinsOf1(m) - WinsOf2(m)
RemainingOf(m) == NumHoles - PlayedOf(m)

\* the entries of m for holes 1..18, with the keys of extra added as team1 wins
OnlyHoles(m) == [h \in (DOMAIN m) \cap (1..NumHoles) |-> m[h]]
WithJunk(m, extra) == [k \in (DOMAIN m) \cup extra |-> IF k \in DOMAIN m THEN m[k] ELSE "team1"]

Called == cOut # NotCalled

\* C5: the calculator returns team1 exactly when lead = team1Wins - team2Wins is
\* positive and greater than remaining = 18 - played, with score "{lead} UP" when
\* nothing remains and "{lead} & {remaining}" otherwise, and symmetrically team2;
\* 18 holes won by team1 give (team1, "18 UP"), 17 team1 and then 1 team2 give
\* (team1, "16 UP"), holes 1-10 team1 with the rest unplayed give (team1, "10 & 8").
C5_Clinch ==
    Called =>
        LET lead == LeadOf(cHoles)
            remaining == RemainingOf(cHoles)
        IN  /\ (cOut.result = "team1") <=> (lead > 0 /\ lead > remaining)
            /\ (cOut.result = "team2") <=> ((0 - lead) > 0 /\ (0 - lead) > remaining)
            /\ cOut.result = "team1" =>
                 cOut.score = IF remaining = 0 THEN IntToStr(lead) \o " UP"
                              ELSE IntToStr(lead) \o " & " \o IntToStr(remaining)
            /\ cOut.result = "team2" =>
                 cOut.score = IF remaining = 0 THEN IntToStr(0 - lead) \o " UP"
                              ELSE IntToStr(0 - lead) \o " & " \o IntToStr(remaining)
            /\ OnlyHoles(cHoles) = [h \in 1..18 |-> "team1"] =>
                 cOut = [result |-> "team1", score |-> "18 UP"]
            /\ OnlyHoles(cHoles) = [h \in 1..18 |-> IF h <= 17 THEN "team1" ELSE "team2"] =>
                 cOut = [result |-> "team1", score |-> "16 UP"]
            /\ OnlyHoles(cHoles) = [h \in 1..10 |-> "team1"] =>
                 cOut = [result |-> "team1", score |-> "10 & 8"]

\* 17 holes to team1 and the 18th to team2 was calculated as (team1, "16 UP")
C5_Witness ==
    /\ OnlyHoles(cHoles) = [h \in 1..18 |-> IF h <= 17 THEN "team1" ELSE "team2"]
    /\ cOut = [result |-> "team1", score |-> "16 UP"]

\* C6: the calculator returns (tie, "A/S") exactly when all 18 holes have a
\* recorded outcome and team1Wins = team2Wins; it never returns tie while a hole
\* of 1..18 is unrecorded.
C6_Tie ==
    Called =>
        /\ (cOut.result = "tie") <=> (PlayedOf(cHoles) = NumHoles /\ WinsOf1(cHoles) = WinsOf2(cHoles))
        /\ cOut.result = "tie" => cOut.score = "A/S"
        /\ cOut.result = "tie" => \A h \in 1..NumHoles : Lookup(cHoles, h) \in {"team1", "team2", "halved"}

\* nine holes each were calculated as a tie
C6_Witness ==
    /\ WinsOf1(cHoles) = 9
    /\ WinsOf2(cHoles) = 9
    /\ cOut = [result |-> "tie", score |-> "A/S"]

\* C7: with at least one hole recorded, no side clinched (|lead| <= remaining) and
\* the match not complete-and-level, the calculator returns pending with score
\* "{team1Name} {lead} UP thru {played}" if lead > 0, "{team2Name} {-lead} UP thru
\* {played}" if lead < 0 and "A/S thru {played}" if lead = 0; holes 1-9 all team1
\* with 10-18 unplayed is still pending.
C7_InProgress ==
    Called =>
        LET lead == LeadOf(cHoles)
            remaining == RemainingOf(cHoles)
            played == PlayedOf(cHoles)
        IN  /\ ( /\ played >= 1
                 /\ lead <= remaining
                 /\ (0 - lead) <= remaining
                 /\ ~(remaining = 0 /\ lead = 0) ) =>
                    /\ cOut.result = "pending"
                    /\ lead > 0 => cOut.score = cNames[1] \o " " \o IntToStr(lead) \o " UP thru " \o IntToStr(played)
                    /\ lead < 0 => cOut.score = cNames[2] \o " " \o IntToStr(0 - lead) \o " UP thru " \o IntToStr(played)
                    /\ lead = 0 => cOut.score = "A/S thru " \o IntToStr(played)
            /\ (OnlyHoles(cHoles) = [h \in 1..9 |-> "team1"] /\ cNames[1] = "Red") =>
                    cOut = [result |-> "pending", score |-> "Red 9 UP thru 9"]

\* holes 1-3 lost by team 1, then unplayed holes, calculated as pending
C7_Witness ==
    /\ OnlyHoles(cHoles) = [h \in 1..3 |-> "team2"]
    /\ cNames[2] = "Blue"
    /\ cOut = [result |-> "pending", score |-> "Blue 3 UP thru 3"]

\* C8: the calculator returns (pending, "") whenever no hole in 1..18 has a
\* recorded outcome: for the empty map and for a map whose only entries are
\* outside holes 1..18 or carry an outcome other than team1/team2/halved.
C8_NothingRecorded ==
    (Called /\ PlayedOf(cHoles) = 0) => cOut = [result |-> "pending", score |-> ""]

\* a non-empty map with a key outside 1..18 and an unknown outcome inside was calculated
C8_Witness ==
    /\ Called
    /\ PlayedOf(cHoles) = 0
    /\ 0 \in DOMAIN cHoles
    /\ \E h \in 1..NumHoles : Lookup(cHoles, h) = "bogus"

\* C9: the calculator is total and deterministic: two maps that agree on holes
\* 1..18 get the same (result, score) for the same team names, whatever entries
\* they have for other keys, and the result is always one of the four results.
C9_DependsOnlyOnHoles ==
    Called =>
        /\ cOut.result \in {"pending", "team1", "team2", "tie"}
        /\ \A extra \in SUBSET JunkKeys :
              CalculateMatchPlayResult(WithJunk(OnlyHoles(cHoles), extra), cNames[1], cNames[2]) = cOut

\* a map with entries for keys 0 and 19 whose holes 1..18 are level was calculated
C9_Witness ==
    /\ Called
    /\ JunkKeys \subseteq DOMAIN cHoles
    /\ PlayedOf(cHoles) = 6
    /\ LeadOf(cHoles) = 0

----------------------------------------------------------------------------
(* Properties of the stored matches *)

\* the tournaments a caller can read back from store st
StoredIn(st) == {GetTournament(st, tid).t : tid \in {x \in TIDs : GetTournament(st, x).err = ""}}
StoredIds == {tid \in TIDs : GetTournament(store, tid).err = ""}
Stored(tid) == GetTournament(store, tid).t

MatchSet(t) ==
    UNION {{t.rounds[i].matches[j] : j \in 1..Len(t.rounds[i].matches)} : i \in 1..Len(t.rounds)}

\* the recorded outcome of hole h of a stored match, "" when it has none
OutcomeOfHole(m, h) ==
    IF backend = "memory"
    THEN IF h <= Len(m.holeResults) THEN m.holeResults[h] ELSE ""
    ELSE Lookup(m.holeResults, KeyOfNumber[h])

\* does the container hold an entry for hole h
HasEntry(m, h) ==
    IF backend = "memory"
    THEN h <= Len(m.holeResults) /\ m.holeResults[h] # ""
    ELSE KeyOfNumber[h] \in DOMAIN m.holeResults

\* the hole-result map of a stored match, by hole number
HoleMap(m) == [h \in {x \in 1..NumHoles : OutcomeOfHole(m, x) # ""} |-> OutcomeOfHole(m, h)]

\* result and score of the match are what the calculator gives for its holes now
IsDerived(m, t) ==
    [result |-> m.result, score |-> m.score]
        = CalculateMatchPlayResult(HoleMap(m), t.teams[1].name, t.teams[2].name)

AllDerivedIn(st) == \A t \in StoredIn(st) : \A m \in MatchSet(t) : IsDerived(m, t)
AllDerived == AllDerivedIn(store)

\* the match the last successful match operation named
LastMatch == CHOOSE m \in MatchSet(Stored(last.tid)) : m.id = last.match
LastWas(op) == last.op = op /\ last.err = ""

\* C1 as stated: in every reachable state each match's result and score are what
\* the calculator returns for its current hole results and the teams' names
\* (pending and "" for a match without recorded holes).
C1_AlwaysDerived == AllDerived

\* C1 amended: create, delete, set-round-pairings and set-hole-result keep every
\* stored match's result and score equal to the calculator's output; only a
\* successful update-match-result or update-whole can make them differ.
C1_DerivedUnlessOverridden ==
    [][ \/ last'.op \in {"override", "update"} /\ last'.err = ""
        \/ store' = store
        \/ ~AllDerived
        \/ AllDerivedIn(store') ]_vars

\* a hole edit has just decided a match for team1, one up
C1_Witness ==
    /\ LastWas("hole")
    /\ AllDerived
    /\ LastMatch.result = "team1"
    /\ LastMatch.score = "1 UP"

\* C10: after a successful set-hole-result on hole h, hole h has no entry if the
\* outcome was empty and otherwise its entry is the outcome given.
C10_HoleEntry ==
    LastWas("hole") =>
        IF last.outcome = ""
        THEN ~HasEntry(LastMatch, last.hole)
        ELSE OutcomeOfHole(LastMatch, last.hole) = last.outcome

\* hole 18 has just been cleared in a match whose earlier holes stay halved
C10_Witness ==
    /\ LastWas("hole")
    /\ last.outcome = ""
    /\ last.hole = NumHoles
    /\ ~HasEntry(LastMatch, NumHoles)
    /\ OutcomeOfHole(LastMatch, 1) = "halved"

\* the match as it was stored before the last successful hole edit or override
MatchWas == last.before[1]

\* C11: after a successful set-hole-result on hole h, whatever the outcome given,
\* every hole before h that had no outcome is halved, every hole before h that
\* had an outcome keeps it, and every hole after h is as it was.
C11_Backfill ==
    LastWas("hole") =>
        \A g \in 1..NumHoles :
            /\ g < last.hole =>
                   OutcomeOfHole(LastMatch, g) =
                       IF OutcomeOfHole(MatchWas, g) = "" THEN "halved"
                       ELSE OutcomeOfHole(MatchWas, g)
            /\ g > last.hole =>
                   /\ OutcomeOfHole(LastMatch, g) = OutcomeOfHole(MatchWas, g)
                   /\ HasEntry(LastMatch, g) = HasEntry(MatchWas, g)

\* hole 18 has just been edited in a match that had hole 1 won by team1 and
\* nothing on hole 2: hole 1 is kept and hole 2 is halved
C11_Witness ==
    /\ LastWas("hole")
    /\ last.hole = NumHoles
    /\ OutcomeOfHole(MatchWas, 1) = "team1"
    /\ OutcomeOfHole(LastMatch, 1) = "team1"
    /\ OutcomeOfHole(MatchWas, 2) = ""
    /\ OutcomeOfHole(LastMatch, 2) = "halved"

\* C12: immediately after a successful set-hole-result the edited match's result
\* and score are the calculator's output for its updated hole results and the
\* tournament's current team names, also when they had been overridden before.
C12_RecalculatedAfterEdit ==
    LastWas("hole") => IsDerived(LastMatch, Stored(last.tid))

\* the hole edit was made on a match whose result and score had been set by
\* hand to something its holes do not give
C12_Witness ==
    /\ LastWas("hole")
    /\ MatchWas.result = ResultTeam2
    /\ MatchWas.score = "1 UP"
    /\ ~IsDerived(MatchWas, Stored(last.tid))
    /\ IsDerived(LastMatch, Stored(last.tid))
    /\ LastMatch.result = ResultPending

\* a tournament without its update timestamp
Unstamped(t) == [t EXCEPT !.updatedAt = 0]

\* the store after the last successful set-hole-result is made once more with
\* the same arguments
HoleCallAgain ==
    UpdateHoleResult(store, last.tid, last.round, last.match,
                     HoleArgument(last.hole), last.outcome, now, "none")

\* C13: set-hole-result is idempotent: made a second time with the same
\* arguments it succeeds and leaves the tournament as the first call left it,
\* the update timestamp apart.
C13_HoleEditIdempotent ==
    LastWas("hole") =>
        \E again \in {HoleCallAgain} :
            /\ again.err = ""
            /\ Unstamped(GetTournament(again.store, last.tid).t) = Unstamped(Stored(last.tid))

\* the first call changed the match: it cleared hole 18, which team1 had won
C13_Witness ==
    /\ LastWas("hole")
    /\ last.hole = NumHoles
    /\ last.outcome = ""
    /\ OutcomeOfHole(MatchWas, NumHoles) = "team1"
    /\ OutcomeOfHole(LastMatch, 1) = "halved"
    /\ MatchWas # LastMatch
    /\ GetTournament(HoleCallAgain.store, last.tid).t.updatedAt # Stored(last.tid).updatedAt

\* what a call naming tournament tid, round number round and match mid finds
\* missing in the store, "" when it finds all three
Missing(tid, round, mid) ==
    IF ~Exists(store, tid) THEN "notfound"
    ELSE IF \A i \in 1..Len(Stored(tid).rounds) : Stored(tid).rounds[i].number # round
    THEN "roundnotfound"
    ELSE IF <<round, mid>> \notin MatchesOf(Stored(tid)) THEN "matchnotfound"
    ELSE ""

\* the tournament ids, round numbers and match ids the calls are tried with
ProbeIds == TIDs \cup {"t9"}
ProbeMatches == {m[2] : m \in MatchInputs}

\* the call fails with the not-found error err and the store is as it was
Refused(r, err) == r.err = err /\ r.err # "" /\ r.store = store

\* C14: set-hole-result, update-match-result and set-round-pairings return a
\* not-found error when the tournament id is absent, when no round has the
\* round number, or (the first two) when the round has no match with the match
\* id; the store, the tournament's timestamp included, is then unchanged.
C14_NotFound ==
    \A tid \in ProbeIds, round \in RoundInputs, mid \in ProbeMatches, fail \in FailPoints :
        \E miss \in {Missing(tid, round, mid)} :
            /\ miss # "" =>
                   /\ Refused(UpdateHoleResult(store, tid, round, mid, HoleArgument(1),
                                               ResultTeam1, now, fail), miss)
                   /\ Refused(UpdateMatchResult(store, tid, round, mid, ResultTeam1,
                                                "1 UP", now, fail), miss)
            /\ miss \in {"notfound", "roundnotfound"} =>
                   Refused(SetRoundPairings(store, tid, round, NewMatches(round, 1, nextId),
                                            now, fail), miss)

\* a hole edit named a match id that the round, which has matches, does not have
C14_Witness ==
    /\ last.op = "hole"
    /\ last.err = "matchnotfound"
    /\ last.tid \in StoredIds
    /\ \E m \in MatchesOf(Stored(last.tid)) : m[1] = 1
    /\ Missing(last.tid, 1, "nope") = "matchnotfound"
    /\ Missing(last.tid, 6, "nope") = "roundnotfound"
    /\ Missing("t9", 1, "nope") = "notfound"

\* the tournament a create call would store under tid at this moment
Fresh(tid, names) == CreateTournament(store, NewTournament(tid, names, nextId), now, "none")

\* both timestamps of the tournament stored under tid in st are the time given
StampedAt(st, tid, time) ==
    \E g \in {GetTournament(st, tid)} :
        g.err = "" /\ g.t.createdAt = time /\ g.t.updatedAt = time

\* C15: create with an id that is already stored fails with a conflict error
\* and leaves the stored tournament unchanged; create with an id that is not
\* stored succeeds, and the tournament it stores has createdAt = updatedAt.
C15_CreateConflictOrFresh ==
    /\ [](\A tid \in ProbeIds, names \in NamePairs :
              IF Exists(store, tid)
              THEN Fresh(tid, names).err = "conflict" /\ Fresh(tid, names).store = store
              ELSE Fresh(tid, names).err = "" /\ StampedAt(Fresh(tid, names).store, tid, now))
    /\ [][last'.op = "create" =>
             IF Exists(store, last'.tid)
             THEN last'.err = "conflict" /\ store' = store
             ELSE last'.err = "" => StampedAt(store', last'.tid, now)]_vars

\* a create has just been refused for the id of a tournament that was changed
\* after its creation
C15_Witness ==
    /\ last.op = "create"
    /\ last.err = "conflict"
    /\ last.tid \in StoredIds
    /\ Stored(last.tid).createdAt < Stored(last.tid).updatedAt

\* the tournament stored under the id of the step's call, before and after it
TournamentBefore == GetTournament(store, last'.tid).t
TournamentAfter == GetTournament(store', last'.tid).t

\* the two tournaments have the same rounds with the same numbers of matches,
\* and differ at most in their matches and their update timestamp
SameButMatches(t0, t1) ==
    /\ [t1 EXCEPT !.rounds = t0.rounds, !.updatedAt = t0.updatedAt] = t0
    /\ Len(t1.rounds) = Len(t0.rounds)
    /\ \A i \in 1..Len(t0.rounds) :
           [t1.rounds[i] EXCEPT !.matches = t0.rounds[i].matches] = t0.rounds[i]

\* the match called is as it was but for the result and the score given; every
\* other match of every round is as it was
OnlyResultSet(t0, t1) ==
    \A i \in 1..Len(t0.rounds) :
        /\ Len(t1.rounds[i].matches) = Len(t0.rounds[i].matches)
        /\ \A j \in 1..Len(t0.rounds[i].matches) :
               \E m0 \in {t0.rounds[i].matches[j]}, m1 \in {t1.rounds[i].matches[j]} :
                   IF t0.rounds[i].number = last'.round /\ m0.id = last'.match
                   THEN /\ m1.result = last'.outcome
                        /\ m1.score = last'.score
                        /\ [m1 EXCEPT !.result = m0.result, !.score = m0.score] = m0
                   ELSE m1 = m0

\* C19: a successful update-match-result sets the match's result and score to
\* exactly the values given, whatever the calculator would give for its holes;
\* the match's hole results and player lists, every other match, every other
\* round and the teams are as they were.
C19_OverrideFrame ==
    [][(last'.op = "override" /\ last'.err = "") =>
           /\ SameButMatches(TournamentBefore, TournamentAfter)
           /\ OnlyResultSet(TournamentBefore, TournamentAfter)]_vars

\* the override has given a match with a recorded hole a result its holes do
\* not give, in a tournament with a second match
C19_Witness ==
    /\ LastWas("override")
    /\ LastMatch.result = last.outcome
    /\ LastMatch.score = last.score
    /\ LastMatch.result # MatchWas.result
    /\ HoleMap(LastMatch) # <<>>
    /\ HoleMap(LastMatch) = HoleMap(MatchWas)
    /\ ~IsDerived(LastMatch, Stored(last.tid))
    /\ Cardinality(MatchSet(Stored(last.tid))) > 1

\* the ids of the matches in a list of matches
IdsOf(matches) == {matches[j].id : j \in 1..Len(matches)}

\* a match as a new pairing leaves it: pending, no score, no hole recorded
IsFreshMatch(m) ==
    /\ m.result = ResultPending
    /\ m.score = ""
    /\ DOMAIN HoleMap(m) = {}
    /\ \A h \in 1..NumHoles : ~HasEntry(m, h)

\* the round called has a list of fresh matches, none of them a match it had;
\* every other round has the matches it had
RoundReplaced(t0, t1) ==
    \A i \in 1..Len(t0.rounds) :
        IF t0.rounds[i].number = last'.round
        THEN /\ IdsOf(t1.rounds[i].matches) \cap IdsOf(t0.rounds[i].matches) = {}
             /\ Len(t1.rounds[i].matches) \in 1..MaxMatches
             /\ \A j \in 1..Len(t1.rounds[i].matches) :
                    /\ IsFreshMatch(t1.rounds[i].matches[j])
                    /\ t1.rounds[i].matches[j].roundNumber = last'.round
        ELSE t1.rounds[i].matches = t0.rounds[i].matches

\* C20: a successful set-round-pairings on round r replaces the whole match
\* list of round r; every match of the new list is pending with an empty score
\* and no hole results; every other round is as it was.
C20_PairingsReplaceRound ==
    [][(last'.op = "pairings" /\ last'.err = "") =>
           /\ SameButMatches(TournamentBefore, TournamentAfter)
           /\ RoundReplaced(TournamentBefore, TournamentAfter)]_vars

\* the new pairings have replaced a match that had a recorded hole and a result
C20_Witness ==
    /\ LastWas("pairings")
    /\ Len(last.before) > 0
    /\ last.before[1].result = ResultTeam1
    /\ HasEntry(last.before[1], 1)
    /\ \A m \in MatchSet(Stored(last.tid)) :
           m.roundNumber = last.round => IsFreshMatch(m) /\ m.id # last.before[1].id
    /\ \E m \in MatchSet(Stored(last.tid)) : m.roundNumber = last.round

----------------------------------------------------------------------------
(* Properties of the scoreboard *)

\* a scoreboard has been computed
BoardDone == sbOut # NoValue

\* how many matches of the round have this result
NumWith(round, result) ==
    Cardinality({j \in 1..Len(round.matches) : round.matches[j].result = result})

\* the round score at position i is the one of the tournament's round i, taken
\* from the results of the round's matches: points are doubled so that the
\* half of pointsPerMatch a tie gives needs no division
RoundScoreRight(round, rs) ==
    /\ 2 * rs.team1Points =
           2 * round.pointsPerMatch * NumWith(round, ResultTeam1)
               + round.pointsPerMatch * NumWith(round, ResultTie)
    /\ 2 * rs.team2Points =
           2 * round.pointsPerMatch * NumWith(round, ResultTeam2)
               + round.pointsPerMatch * NumWith(round, ResultTie)
    /\ rs.matchesPlayed =
           NumWith(round, ResultTeam1) + NumWith(round, ResultTeam2) + NumWith(round, ResultTie)
    /\ rs.matchesPlayed = Len(round.matches) - NumWith(round, ResultPending)
    /\ rs.totalMatches = Len(round.matches)
    /\ rs.matchesPlayed <= rs.totalMatches

\* C21: for each round, a team1 result adds pointsPerMatch to team1's points of
\* the round, a team2 result adds it to team2's, a tie adds half of it to each,
\* and each of them counts as a match played; a pending match adds no points
\* and is not counted as played but is counted in totalMatches, the number of
\* matches of the round, so matchesPlayed <= totalMatches.
C21_RoundScores ==
    BoardDone =>
        /\ Len(sbOut.board.roundScores) = Len(sbIn.rounds)
        /\ \A i \in 1..Len(sbIn.rounds) :
               RoundScoreRight(sbIn.rounds[i], sbOut.board.roundScores[i])

\* round 1 has a win of team1, a tie and a pending match; round 2, at half a
\* point a match, has a win of team2 and a tie
C21_Witness ==
    /\ BoardDone
    /\ NumWith(sbIn.rounds[1], ResultPending) = 1
    /\ sbOut.board.roundScores[1].matchesPlayed = 2
    /\ sbOut.board.roundScores[1].totalMatches = 3
    /\ sbOut.board.roundScores[1].team1Points = 6
    /\ sbOut.board.roundScores[1].team2Points = 2
    /\ sbOut.board.roundScores[2].team2Points = 3
    /\ sbOut.board.roundScores[2].team1Points = 1

\* C22: in every round of a scoreboard team1Points + team2Points is
\* pointsPerMatch times matchesPlayed: each match counted gives pointsPerMatch
\* in all, to one team or half to each.
C22_PointsPerPlayedMatch ==
    BoardDone =>
        \A i \in 1..Len(sbOut.board.roundScores) :
            /\ sbOut.board.roundScores[i].pointsPerMatch = sbIn.rounds[i].pointsPerMatch
            /\ sbOut.board.roundScores[i].team1Points + sbOut.board.roundScores[i].team2Points
                   = sbIn.rounds[i].pointsPerMatch * sbOut.board.roundScores[i].matchesPlayed

\* round 2, at half a point a match, has three matches played of which a tie
\* leaves team1 with three quarters of a point
C22_Witness ==
    /\ BoardDone
    /\ sbOut.board.roundScores[2].pointsPerMatch = 2
    /\ sbOut.board.roundScores[2].matchesPlayed = 3
    /\ sbOut.board.roundScores[2].team1Points = 3
    /\ sbOut.board.roundScores[2].team2Points = 3
    /\ NumWith(sbIn.rounds[2], ResultTie) = 1

\* the sum of the field named of the first n round scores
RECURSIVE SumOf(_, _, _)
SumOf(scores, field, n) ==
    IF n = 0 THEN 0 ELSE SumOf(scores, field, n - 1) + scores[n][field]

\* C23: the scoreboard's team totals are the sums of the rounds' team points;
\* it has one round entry for each round of the tournament, in the order of
\* the tournament's rounds; computing it leaves the tournament as it was.
C23_TotalsAndOrder ==
    BoardDone =>
        /\ Len(sbOut.board.roundScores) = Len(sbIn.rounds)
        /\ \A i \in 1..Len(sbIn.rounds) :
               /\ sbOut.board.roundScores[i].roundNumber = sbIn.rounds[i].number
               /\ sbOut.board.roundScores[i].roundName = sbIn.rounds[i].name
        /\ sbOut.board.team1Total =
               SumOf(sbOut.board.roundScores, "team1Points", Len(sbOut.board.roundScores))
        /\ sbOut.board.team2Total =
               SumOf(sbOut.board.roundScores, "team2Points", Len(sbOut.board.roundScores))
        /\ sbOut.t = sbIn

\* three rounds have given team1 points and the teams' totals differ
C23_Witness ==
    /\ BoardDone
    /\ sbOut.board.roundScores[1].team1Points = 8
    /\ sbOut.board.roundScores[2].team1Points = 3
    /\ sbOut.board.roundScores[5].team1Points = 2
    /\ sbOut.board.team1Total = 13
    /\ sbOut.board.team2Total = 5

\* the orders in which n matches can be listed
Orders(n) == {f \in [1..n -> 1..n] : \A a, b \in 1..n : f[a] = f[b] => a = b}

\* the match list in the order f
Reordered(matches, f) == [k \in 1..Len(matches) |-> matches[f[k]]]

\* the tournament with the matches of rounds 1 and 2 in the orders f1 and f2
WithOrders(t, f1, f2) ==
    [t EXCEPT !.rounds[1].matches = Reordered(t.rounds[1].matches, f1),
              !.rounds[2].matches = Reordered(t.rounds[2].matches, f2)]

\* C24: the scoreboard does not depend on the order of the matches within a
\* round: every tournament that differs from this one only in the order of
\* the matches inside its rounds has the same scoreboard.
C24_MatchOrderIrrelevant ==
    BoardDone =>
        \A f1 \in Orders(Len(sbIn.rounds[1].matches)),
           f2 \in Orders(Len(sbIn.rounds[2].matches)) :
            CalculateScoreboard(WithOrders(sbIn, f1, f2)) = sbOut.board

\* the three matches of round 1 have three different results and the matches
\* of round 2 differ too, so their other orders are other tournaments
C24_Witness ==
    /\ BoardDone
    /\ Len(sbIn.rounds[1].matches) = 3
    /\ Cardinality({sbIn.rounds[1].matches[k].result : k \in 1..3}) = 3
    /\ Len(sbIn.rounds[2].matches) >= 2
    /\ sbIn.rounds[2].matches[1].result # sbIn.rounds[2].matches[2].result
    /\ \E f1 \in Orders(3) : WithOrders(sbIn, f1, <<1, 2>>) # sbIn

----------------------------------------------------------------------------
(* Properties of the decoding of a stored match *)

\* a document has been decoded
Decoded == jsonOut # NoValue

\* the raw hole results that were decoded and the hole results decoded from them
RawIn == jsonIn.holeResults
HolesOut == jsonOut.match.holeResults

\* C25: decoding a match whose holeResults is a legacy array gives a map in
\* which hole i+1 has the string at index i whenever that string is not empty
\* (position p of the sequence is index p-1, so hole p), and which has no
\* entry for an index whose string is empty nor any other entry; an absent or
\* null holeResults decodes to an empty map that is not nil.
C25_LegacyArrayDecoded ==
    Decoded =>
        /\ RawIn.kind = "array" =>
               /\ \A p \in 1..Len(RawIn.items) :
                      IF RawIn.items[p] # ""
                      THEN /\ IntToStr(p) \in DOMAIN HolesOut
                           /\ HolesOut[IntToStr(p)] = RawIn.items[p]
                      ELSE IntToStr(p) \notin DOMAIN HolesOut
               /\ DOMAIN HolesOut \subseteq {IntToStr(p) : p \in 1..Len(RawIn.items)}
        /\ RawIn.kind \in {"absent", "null"} =>
               DOMAIN HolesOut = {} /\ ~jsonOut.holesNil

\* the array of 18 strings "team1", "", "halved", "halved", ... has been decoded
\* to hole 1 team1, no hole 2, holes 3..18 halved
C25_Witness ==
    /\ Decoded
    /\ RawIn.kind = "array"
    /\ Len(RawIn.items) = NumHoles
    /\ RawIn.items[1] = "team1"
    /\ RawIn.items[2] = ""
    /\ RawIn.items[3] = "halved"
    /\ DOMAIN HolesOut = {IntToStr(p) : p \in (1..NumHoles) \ {2}}
    /\ HolesOut["1"] = "team1"
    /\ HolesOut["18"] = "halved"

\* the fields of a stored object that are entries of a hole-result map: the key
\* is the decimal form of a number and the value is not empty
EntryKeys(fields) == {k \in DOMAIN fields : k \in {IntToStr(n) : n \in 0..(NumHoles + 1)} /\ fields[k] # ""}

\* C26: the upgrade of a legacy record is idempotent and invisible: encoding
\* the decoded match in the current form and decoding it again gives the match
\* of the first decoding, whatever form the record had; decoding a record in
\* map form gives exactly its non-empty entries.
C26_UpgradeIdempotent ==
    Decoded =>
        /\ DecodeMatch(EncodeMatch(jsonOut.match)) = jsonOut
        /\ EncodeMatch(jsonOut.match).holeResults.kind = "object"
        /\ RawIn.kind = "object" =>
               /\ DOMAIN HolesOut = EntryKeys(RawIn.fields)
               /\ \A k \in EntryKeys(RawIn.fields) : HolesOut[k] = RawIn.fields[k]

\* the record decoded is the current form of what a legacy array of 18 strings
\* was decoded to: holes 1 and 3..18, no hole 2
C26_Witness ==
    /\ Decoded
    /\ RawIn.kind = "object"
    /\ DOMAIN RawIn.fields = {IntToStr(p) : p \in (1..NumHoles) \ {2}}
    /\ RawIn.fields["1"] = "team1"
    /\ HolesOut = RawIn.fields

----------------------------------------------------------------------------
(* Properties of the persisted form *)

\* encoding the tournament and decoding the result gives the tournament back,
\* its empty containers normalised
RoundTrips(t) == DecodeTournament(EncodeTournament(t)) = normalizeTournament(t)

\* the tournaments a hole edit of the stored tournament tid hands to the encoder
AfterHoleEdits(tid) ==
    {r.t : r \in {x \in {ModUpdateHoleResult(Stored(tid), m[1], m[2], HoleArgument(h), o, now) :
                            m \in MatchInputs, h \in HoleInputs, o \in OutcomeInputs} :
                    x.err = ""}}

HolesMissing(m) ==
    IF backend = "memory" THEN Len(m.holeResults) = 0
    ELSE IF backend = "file" THEN DecodeMatch(EncodeMatch(m)).holesNil
    ELSE FALSE

\* C28 as stated: every tournament a read of any backend returns has a hole
\* container that is not nil in each of its matches (the player lists and match
\* lists are made non-nil by the handlers that build them).
C28_ReadsHaveContainers ==
    \A tid \in StoredIds : \A m \in MatchSet(Stored(tid)) : ~HolesMissing(m)

----------------------------------------------------------------------------
(* Properties of the shape of a stored tournament *)

\* the competition's rounds: number, format and points per match in quarter points
TemplateRounds ==
    << <<1, "lauderdale", 4>>, <<2, "foursome", 2>>, <<3, "foursome", 2>>,
       <<4, "fourball", 4>>, <<5, "singles", 4>> >>

\* the rounds of t without their matches
RoundHeads(t) ==
    [i \in 1..Len(t.rounds) |->
        <<t.rounds[i].number, t.rounds[i].type, t.rounds[i].pointsPerMatch>>]
RoundNames(t) == [i \in 1..Len(t.rounds) |-> t.rounds[i].name]

TeamIds(t) == [i \in DOMAIN t.teams |-> t.teams[i].id]

\* two teams, the five rounds of the template at positions 1 to 5, each match in
\* the round whose number it carries
WellShaped(t) ==
    /\ DOMAIN t.teams = 1..2
    /\ RoundHeads(t) = TemplateRounds
    /\ \A i \in 1..Len(t.rounds) : \A j \in 1..Len(t.rounds[i].matches) :
           t.rounds[i].matches[j].roundNumber = i

AllWellShaped == \A tid \in StoredIds : WellShaped(Stored(tid))

\* a step that leaves the tournament stored leaves its teams in their places and
\* its rounds, their matches apart, as they were
ShapeKept ==
    \A tid \in TIDs :
        \E g \in {GetTournament(store, tid)}, h \in {GetTournament(store', tid)} :
            (g.err = "" /\ h.err = "") =>
                /\ TeamIds(h.t) = TeamIds(g.t)
                /\ RoundHeads(h.t) = RoundHeads(g.t)
                /\ RoundNames(h.t) = RoundNames(g.t)

\* C30: every stored tournament has exactly two teams and the five template
\* rounds numbered 1 to 5 in position order, every match stored in round r has
\* roundNumber r, and no mutation changes the order of the teams or adds,
\* removes, renumbers or reorders rounds.
C30_TeamsAndRoundsFixed == []AllWellShaped /\ [][ShapeKept]_vars

\* a roster update has been stored for a tournament with matches in rounds 1 and 2
C30_Witness ==
    /\ LastWas("update")
    /\ last.tid \in StoredIds
    /\ Len(Stored(last.tid).rounds[1].matches) > 0
    /\ Len(Stored(last.tid).rounds[2].matches) > 0
    /\ WellShaped(Stored(last.tid))

----------------------------------------------------------------------------
(* One fresh store of each backend, all three given the same calls one after *)
(* the other                                                                 *)

\* the order in which the three stores take each call
BackendOrder == <<"memory", "file", "firestore">>
FirstBackend == BackendOrder[1]
LastBackend == BackendOrder[Len(BackendOrder)]
NextBackend(b) ==
    LET i == CHOOSE k \in 1..Len(BackendOrder) : BackendOrder[k] = b
    IN  BackendOrder[(i % Len(BackendOrder)) + 1]

\* what a caller sees of a tournament, timestamps left out: its fields, and the
\* hole results of each match by hole number
Contents(t) ==
    [t EXCEPT !.createdAt = 0, !.updatedAt = 0,
              !.rounds = [i \in 1..Len(t.rounds) |->
                  [t.rounds[i] EXCEPT !.matches =
                      [j \in 1..Len(t.rounds[i].matches) |->
                          [t.rounds[i].matches[j] EXCEPT
                              !.holeResults = HoleMap(t.rounds[i].matches[j])]]]]]

\* what GetTournament of each id and ListTournaments return from store st
Observed(st) ==
    [got |-> [tid \in TIDs |->
                 LET g == GetTournament(st, tid)
                 IN  IF g.err = "" THEN [err |-> "", t |-> Contents(g.t)] ELSE [err |-> g.err]],
     listed |-> LET l == ListTournaments(st, "none")
                IN  [err |-> l.err, items |-> {Contents(t) : t \in l.items}]]

InitEquiv ==
    /\ backend = FirstBackend
    /\ store = <<>>
    /\ replicas = [call |-> [op |-> "none"], outs |-> <<>>, stores |-> [b \in Backends |-> <<>>]]
    /\ now = 1
    /\ nextId = 0
    /\ last = Called0("none", "", 0, "", 0, "", "")
    /\ cHoles = <<>>
    /\ cNames = <<"Red", "Blue">>
    /\ cOut = NotCalled
    /\ mu = Unlocked
    /\ procs = [p \in Procs |-> IdleProc]
    /\ InitNoBoard
    /\ InitNoCodec
    /\ InitNoHeap

\* the store whose turn it is takes call c, an operation without a write failure
\* that returned r and used n identifiers; the first store takes a new call, the
\* others the call the first one took; the clock and the identifiers move on when
\* all three have taken it
Replicated(c, r, n) ==
    /\ backend = FirstBackend \/ replicas.call = c
    /\ LET out == [err |-> r.err, seen |-> Observed(r.store)]
           outs == With(IF backend = FirstBackend THEN <<>> ELSE replicas.outs, backend, out)
           stores == With(replicas.stores, backend, r.store)
       IN  /\ replicas' = [call |-> c, outs |-> outs, stores |-> stores]
           /\ backend' = NextBackend(backend)
           /\ store' = stores[NextBackend(backend)]
    /\ IF backend = LastBackend
       THEN Tick(r) /\ Allocated(r, n)
       ELSE UNCHANGED <<now, nextId>>
    /\ last' = Called0(c.op, c.tid, 0, "", 0, "", r.err)
    /\ UNCHANGED <<cHoles, cNames, cOut, boardIdle, codecIdle, heapIdle, concIdle>>

\* Store.GetTournament and Store.ListTournaments as calls that leave the store as it is
Read(st, err) == [store |-> st, err |-> err, stamped |-> FALSE]

EquivCreate(tid, names) ==
    /\ now < MaxTime
    /\ nextId + 2 <= MaxIds
    /\ Replicated([op |-> "create", tid |-> tid, names |-> names],
                  CreateTournament(store, NewTournament(tid, names, nextId), now, "none"), 2)

EquivUpdateWhole(tid, names) ==
    /\ now < MaxTime
    /\ \E g \in {GetTournament(store, tid)} :
           Replicated([op |-> "update", tid |-> tid, names |-> names],
                      IF g.err # "" THEN Read(store, g.err)
                      ELSE UpdateTournament(store, RenameTeams(g.t, names), now, "none"), 0)

EquivDelete(tid) ==
    Replicated([op |-> "delete", tid |-> tid], DeleteTournament(store, tid, "none"), 0)

EquivGet(tid) ==
    Replicated([op |-> "get", tid |-> tid], Read(store, GetTournament(store, tid).err), 0)

EquivList ==
    Replicated([op |-> "list", tid |-> ""], Read(store, ListTournaments(store, "none").err), 0)

EquivSetPairings(tid, round, n) ==
    /\ now < MaxTime
    /\ nextId + n <= MaxIds
    /\ Replicated([op |-> "pairings", tid |-> tid, round |-> round, n |-> n],
                  SetRoundPairings(store, tid, round, NewMatches(round, n, nextId), now, "none"), n)

EquivOverrideResult(tid, round, mid, res) ==
    /\ now < MaxTime
    /\ Replicated([op |-> "override", tid |-> tid, round |-> round, match |-> mid, res |-> res],
                  UpdateMatchResult(store, tid, round, mid, res[1], res[2], now, "none"), 0)

EquivSetHoleResult(tid, round, mid, h, outcome) ==
    /\ now < MaxTime
    /\ Replicated([op |-> "hole", tid |-> tid, round |-> round, match |-> mid,
                   hole |-> h, outcome |-> outcome],
                  UpdateHoleResult(store, tid, round, mid, HoleArgument(h), outcome, now, "none"), 0)

NextEquiv ==
    \/ \E tid \in TIDs, names \in NamePairs : EquivCreate(tid, names)
    \/ \E tid \in TIDs, names \in NamePairs : EquivUpdateWhole(tid, names)
    \/ \E tid \in TIDs : EquivDelete(tid)
    \/ \E tid \in TIDs : EquivGet(tid)
    \/ EquivList
    \/ \E tid \in TIDs, round \in RoundInputs, n \in 1..MaxMatches : EquivSetPairings(tid, round, n)
    \/ \E tid \in TIDs, m \in MatchInputs, res \in OverrideInputs :
          EquivOverrideResult(tid, m[1], m[2], res)
    \/ \E tid \in TIDs, m \in MatchInputs, h \in HoleInputs, outcome \in OutcomeInputs :
          EquivSetHoleResult(tid, m[1], m[2], h, outcome)

SpecEquiv == InitEquiv /\ [][NextEquiv]_vars

\* the stores that have taken the current call
Taken == DOMAIN replicas.outs

----------------------------------------------------------------------------
(* Properties of the temporary files of the file store *)

AfterRenameFailure(id, names) == writeTournament(store, NewTournament(id, names, 0), "rename")

----------------------------------------------------------------------------
(* Properties of the timestamps of a stored tournament *)

Mutations == {"update", "pairings", "override", "hole"}

\* what the step does to the timestamps of the tournament stored under tid,
\* read from the store before and after it
TimestampsKept(tid) ==
    \E g0 \in {GetTournament(store, tid)}, g1 \in {GetTournament(store', tid)} :
        /\ (g0.err = "notfound" /\ g1.err = "")
              => g1.t.createdAt = now /\ g1.t.updatedAt = now
        /\ (g0.err = "" /\ g1.err = "") =>
              /\ g1.t.createdAt = g0.t.createdAt
              /\ g1.t.updatedAt >= g0.t.updatedAt
              /\ (last'.tid = tid /\ last'.err = "" /\ last'.op \in Mutations)
                    => g1.t.updatedAt = now
              /\ (last'.tid # tid \/ last'.err # "" \/ last'.op \notin Mutations)
                    => g1.t.updatedAt = g0.t.updatedAt

----------------------------------------------------------------------------
(* Properties of the store's tournaments as a collection *)

\* the ids of the tournaments a listing of st returns
ListedIds(st) == {t.id : t \in ListTournaments(st, "none").items}

\* get, update-whole and delete are refused for every id that is not stored
UnknownIdRefused ==
    \A tid \in ListIds \cup {"t9"}, names \in NamePairs, fail \in FailPoints :
        ~Exists(store, tid) =>
            /\ GetTournament(store, tid).err = "notfound"
            /\ Refused(UpdateTournament(store, NewTournament(tid, names, nextId), now, fail),
                       "notfound")
            /\ Refused(DeleteTournament(store, tid, fail), "notfound")

\* the step is a refused get, update-whole or delete
RefusedStep ==
    /\ last'.op \in {"get", "update", "delete"}
    /\ last'.err = "notfound"

\* the step is a successful delete
DeletedStep == last'.op = "delete" /\ last'.err = "" /\ store' # store

\* tournament tid, which get did not find, is found after the step
Reappears(tid) ==
    /\ GetTournament(store, tid).err = "notfound"
    /\ GetTournament(store', tid).err # "notfound"

\* C16: get, update-whole and delete on an id that is not stored fail with
\* not-found and leave the store as it is; after a successful delete of X,
\* get(X) fails with not-found and X is not listed, and only a successful
\* create(X) ends that.
C16_UnknownAndDeleted ==
    /\ []UnknownIdRefused
    /\ [][/\ RefusedStep => store' = store
          /\ DeletedStep =>
                 /\ GetTournament(store', last'.tid).err = "notfound"
                 /\ last'.tid \notin ListedIds(store')
          /\ \A tid \in ListIds :
                 Reappears(tid) =>
                     last'.op = "create" /\ last'.tid = tid /\ last'.err = ""]_vars

\* t1 has just been deleted from a store that still holds and lists t2
C16_Witness ==
    /\ LastWas("delete")
    /\ last.tid = "t1"
    /\ GetTournament(store, "t1").err = "notfound"
    /\ ListedIds(store) = {"t2"}

\* C17 as stated: a listing never returns an error, whatever the backend and
\* the state of its storage, and what it returns is not nil.
C17_ListNeverFails ==
    last.op = "list" => last.err = "" /\ ~last.isNil

\* C17 amended: a listing returns an error exactly when the scan of the storage
\* itself fails (os.ReadDir, the iterator of the Firestore query), never
\* because of what is stored and never in the memory backend; a listing that
\* does not fail returns a slice that is not nil, empty when no tournament is
\* stored.
C17_ListFailsOnlyOnScan ==
    last.op = "list" =>
        /\ last.err # "" <=> last.fail = "scan"
        /\ backend = "memory" => last.err = ""
        /\ last.err = "" =>
               /\ ~last.isNil
               /\ (\A tid \in ListIds : GetTournament(store, tid).err # "") => last.items = {}

\* a listing of a storage that holds records, none of them a tournament that
\* decodes, has returned the empty slice
C17_Witness ==
    /\ last.op = "list"
    /\ last.err = ""
    /\ ~last.isNil
    /\ last.items = {}
    /\ DOMAIN store # {}
    /\ Exists(store, "t1")

\* the ids whose stored record is there and does not decode
Undecodable == {tid \in ListIds : Exists(store, tid) /\ GetTournament(store, tid).err # ""}

\* C18: a listing whose scan meets a stored record that does not decode skips
\* that record and does not fail: it returns every stored tournament that
\* decodes, as get returns it, and nothing else.
C18_SkipsUndecodable ==
    (last.op = "list" /\ last.fail = "none") =>
        /\ last.err = ""
        /\ last.items = {GetTournament(store, tid).t : tid \in {x \in ListIds : GetTournament(store, x).err = ""}}
        /\ \A tid \in Undecodable : \A t \in last.items : t.id # tid

\* the listing has returned t2 alone from a storage in which t1's record does
\* not decode
C18_Witness ==
    /\ last.op = "list"
    /\ last.err = ""
    /\ Undecodable = {"t1"}
    /\ {t.id : t \in last.items} = {"t2"}

----------------------------------------------------------------------------
(* One match played: PUT .../holes/{hole} requests recording outcomes on the *)
(* holes of a freshly paired match, in any order and any number              *)

\* the holes and the results asked for: the first and the last holes of the
\* course, numbers the handler refuses, and a result it refuses
PlayHoles == {0, 1, 2, 16, 17, 18, 19}
PlayResults == {"team1", "team2", "halved", "bogus"}

\* validResults of Handler.UpdateHoleResult, the empty result apart
RecordedResults == {"team1", "team2", "halved"}

\* a tournament whose round 1 has just been paired with one match
PlayStore ==
    LET s0 == CreateTournament(<<>>, NewTournament("t1", <<"Red", "Blue">>, 0), 1, "none").store
    IN  SetRoundPairings(s0, "t1", 1, NewMatches(1, 1, 2), 2, "none").store
PlayMatch == Uuid(3)

InitPlay ==
    /\ backend \in Backends
    /\ store = PlayStore
    /\ now = 3
    /\ nextId = 3
    /\ last = Called0("none", "", 0, "", 0, "", "")
    /\ cHoles = <<>>
    /\ cNames = <<"Red", "Blue">>
    /\ cOut = NotCalled
    /\ mu = Unlocked
    /\ procs = [p \in Procs |-> IdleProc]
    /\ InitNoBoard
    /\ InitNoCodec
    /\ InitNoReplicas
    /\ InitNoHeap

\* Handler.UpdateHoleResult: the hole number and the result are validated, then
\* Store.UpdateHoleResult is called. The clock's readings from MaxTime on are
\* taken as one
PlayHole(h, result) ==
    /\ IF h < 1 \/ h > NumHoles \/ result \notin RecordedResults
       THEN /\ last' = Called0("hole", "t1", 1, PlayMatch, h, result, "badrequest")
            /\ UNCHANGED <<store, now>>
       ELSE \E r \in {UpdateHoleResult(store, "t1", 1, PlayMatch, HoleArgument(h), result,
                                        now, "none")} :
                /\ store' = r.store
                /\ now' = IF now < MaxTime THEN now + 1 ELSE now
                /\ last' = Called1("hole", "t1", 1, PlayMatch, h, result, "", r.err,
                                    MatchBefore(store, "t1", 1, PlayMatch))
    /\ UNCHANGED <<backend, nextId, calcIdle, concIdle>>

NextPlay == \E h \in PlayHoles, result \in PlayResults : PlayHole(h, result)

SpecPlay == InitPlay /\ [][NextPlay]_vars

----------------------------------------------------------------------------
(* PUT /api/tournaments/{id} served by one goroutine while the other serves a  *)
(* Store call: Handler.UpdateTournament is two Store calls, GetTournament and   *)
(* UpdateTournament, each under the store's lock, with the lock free in between *)

RosterNames == <<"Blue", "Red">>
RosterRequest == Req("update", "t1", 0, "", 0, "", "", <<>>)

\* the handler is entered and calls h.store.GetTournament
RosterBegin(p) ==
    /\ procs[p].pc = "idle"
    /\ procs[p].calls < MaxCalls
    /\ \A q \in Procs : procs[q].req.op # "update"
    /\ procs' = [procs EXCEPT ![p] =
            [pc |-> IF HasLock THEN "getlock" ELSE "get", calls |-> procs[p].calls + 1,
             req |-> RosterRequest, err |-> "", t |-> <<>>]]
    /\ UNCHANGED <<store, now, nextId, mu, seqIdle>>

\* mu.RLock() of GetTournament, mu.Lock() of UpdateTournament
RosterLock(p) ==
    /\ procs[p].pc \in {"getlock", "putlock"}
    /\ mu.writer = ""
    /\ IF procs[p].pc = "getlock"
       THEN /\ mu' = [mu EXCEPT !.readers = @ \cup {p}]
            /\ procs' = [procs EXCEPT ![p].pc = "get"]
       ELSE /\ mu.readers = {}
            /\ mu' = [mu EXCEPT !.writer = p]
            /\ procs' = [procs EXCEPT ![p].pc = "put"]
    /\ UNCHANGED <<store, now, nextId, seqIdle>>

\* GetTournament reads the tournament and returns, its deferred RUnlock runs; the
\* handler sets the names of the request in the value it got and calls
\* h.store.UpdateTournament
RosterGet(p) ==
    /\ procs[p].pc = "get"
    /\ \E l \in {Load(store, procs[p].req.tid)} :
           IF l.err # ""
           THEN procs' = [procs EXCEPT ![p].pc = "done", ![p].err = l.err]
           ELSE procs' = [procs EXCEPT ![p].pc = IF HasLock THEN "putlock" ELSE "put",
                                      ![p].t = RenameTeams(l.t, RosterNames)]
    /\ mu' = [mu EXCEPT !.readers = @ \ {p}]
    /\ UNCHANGED <<store, now, nextId, seqIdle>>

\* the rounds of the value the handler holds when UpdateTournament copies it: in
\* the MemoryStore the value is a copy of the stored struct whose Rounds slice
\* still points to the stored array, so they are the rounds stored now
RoundsHeld(p) ==
    IF backend = "memory" THEN store[procs[p].req.tid].rounds ELSE procs[p].t.rounds

\* UpdateTournament up to its write: the existence test and t.UpdatedAt = time.Now()
RosterPut(p) ==
    /\ procs[p].pc = "put"
    /\ IF ~Exists(store, procs[p].req.tid)
       THEN Returns(p, "notfound") /\ now' = now
       ELSE /\ procs' = [procs EXCEPT ![p].pc = "write",
                 ![p].t = [procs[p].t EXCEPT !.rounds = RoundsHeld(p), !.updatedAt = now]]
            /\ now' = now + 1
    /\ UNCHANGED <<store, nextId, mu, seqIdle>>

NextRoster ==
    \/ \E p \in Procs : RosterBegin(p)
    \/ \E p \in Procs : RosterLock(p)
    \/ \E p \in Procs : RosterGet(p)
    \/ \E p \in Procs : RosterPut(p)
    \/ NextConc

SpecRoster == InitConc /\ [][NextRoster]_vars

----------------------------------------------------------------------------
(* The MemoryStore with Go's pointers: m.tournaments[id] points to a Tournament *)
(* struct whose Rounds slice points to a backing array; copied := *t copies the *)
(* struct and shares the array, and with it every round, match and hole list    *)

\* the tournament a struct and the backing array of its Rounds make up
Deref(heap, t) == [t EXCEPT !.rounds = heap[t.rounds]]

\* a value in a caller's hands and the tournament it was when the caller got it
\* or last changed it
Held(heap, t) == <<[t |-> t, seen |-> Deref(heap, t)]>>

\* the tournament m.tournaments["t1"] points to
StoredValue == Deref(mem.heap, mem.stored[1])

InitAlias ==
    /\ backend = "memory"
    /\ store = <<>>
    /\ mem = [heap |-> <<>>, stored |-> <<>>, expect |-> <<>>, given |-> <<>>, got |-> <<>>]
    /\ now = 1
    /\ nextId = 0
    /\ last = Called0("none", "", 0, "", 0, "", "")
    /\ cHoles = <<>>
    /\ cNames = <<"Red", "Blue">>
    /\ cOut = NotCalled
    /\ mu = Unlocked
    /\ procs = [p \in Procs |-> IdleProc]
    /\ InitNoBoard
    /\ InitNoCodec
    /\ InitNoReplicas

aliasRest == <<backend, store, cHoles, cNames, cOut, boardIdle, codecIdle, equivIdle, concIdle>>

\* Handler.CreateTournament and MemoryStore.CreateTournament: t.CreatedAt = now;
\* t.UpdatedAt = now; copied := *t; m.tournaments[t.ID] = &copied. The handler's
\* t and the map's copy share the array that DefaultRounds() made
AliasCreate(names) ==
    /\ now < MaxTime
    /\ nextId + 2 <= MaxIds
    /\ IF mem.stored # <<>>
       THEN /\ last' = Called0("create", "t1", 0, "", 0, "", "conflict")
            /\ UNCHANGED <<mem, now, nextId>>
       ELSE LET ref == nextId + 1
                t == [NewTournament("t1", names, nextId) EXCEPT
                          !.rounds = ref, !.createdAt = now, !.updatedAt = now]
                heap == With(mem.heap, ref, DefaultRounds)
            IN  /\ mem' = [mem EXCEPT !.heap = heap, !.stored = <<t>>,
                                      !.expect = <<Deref(heap, t)>>,
                                      !.given = Held(heap, t)]
                /\ now' = now + 1
                /\ nextId' = nextId + 2
                /\ last' = Called0("create", "t1", 0, "", 0, "", "")
    /\ UNCHANGED aliasRest

\* MemoryStore.GetTournament: copied := *t; return &copied
AliasGet ==
    /\ IF mem.stored = <<>>
       THEN mem' = mem /\ last' = Called0("get", "t1", 0, "", 0, "", "notfound")
       ELSE /\ mem' = [mem EXCEPT !.got = Held(mem.heap, mem.stored[1])]
            /\ last' = Called0("get", "t1", 0, "", 0, "", "")
    /\ UNCHANGED <<now, nextId, aliasRest>>

\* Handler.UpdateTournament and MemoryStore.UpdateTournament: the handler renames
\* the teams of the copy it got; t.UpdatedAt = now; copied := *t;
\* m.tournaments[t.ID] = &copied
AliasUpdateWhole(names) ==
    /\ now < MaxTime
    /\ IF mem.stored = <<>>
       THEN /\ last' = Called0("update", "t1", 0, "", 0, "", "notfound")
            /\ UNCHANGED <<mem, now>>
       ELSE LET t == [RenameTeams(mem.stored[1], names) EXCEPT !.updatedAt = now]
            IN  /\ mem' = [mem EXCEPT !.stored = <<t>>, !.expect = <<Deref(mem.heap, t)>>,
                                      !.given = Held(mem.heap, t)]
                /\ now' = now + 1
                /\ last' = Called0("update", "t1", 0, "", 0, "", "")
    /\ UNCHANGED <<nextId, aliasRest>>

\* MemoryStore.DeleteTournament: delete(m.tournaments, id)
AliasDelete ==
    /\ IF mem.stored = <<>>
       THEN mem' = mem /\ last' = Called0("delete", "t1", 0, "", 0, "", "notfound")
       ELSE /\ mem' = [mem EXCEPT !.stored = <<>>, !.expect = <<>>]
            /\ last' = Called0("delete", "t1", 0, "", 0, "", "")
    /\ UNCHANGED <<now, nextId, aliasRest>>

\* MemoryStore.SetRoundPairings, UpdateMatchResult, UpdateHoleResult: t is the
\* pointer in the map; t.Rounds[i].Matches = matches, match.Result = result,
\* match.HoleResults[hole] = result are writes into the arrays t shares, and
\* t.UpdatedAt = now is a write to the map's struct. r is the call, n the number
\* of identifiers its matches took
InPlace(r, n) ==
    /\ now < MaxTime
    /\ IF mem.stored = <<>>
       THEN /\ last' = Called0(r.op, "t1", 0, "", 0, "", "notfound")
            /\ UNCHANGED <<mem, now, nextId>>
       ELSE \E m \in {Modified(r, StoredValue, now)} :
                IF m.err # ""
                THEN /\ last' = Called0(r.op, "t1", 0, "", 0, "", m.err)
                     /\ UNCHANGED <<mem, now, nextId>>
                ELSE /\ mem' = [mem EXCEPT !.heap[mem.stored[1].rounds] = m.t.rounds,
                                           !.stored[1].updatedAt = now,
                                           !.expect = <<m.t>>]
                     /\ now' = now + 1
                     /\ nextId' = nextId + n
                     /\ last' = Called0(r.op, "t1", r.round, r.match, r.hole, r.outcome, "")
    /\ UNCHANGED aliasRest

AliasSetPairings(round, n) ==
    /\ nextId + n <= MaxIds
    /\ InPlace(Req("pairings", "t1", round, "", 0, "", "", NewMatches(round, n, nextId)), n)

AliasOverrideResult(round, mid, res) ==
    InPlace(Req("override", "t1", round, mid, 0, res[1], res[2], <<>>), 0)

AliasSetHoleResult(round, mid, h, outcome) ==
    InPlace(Req("hole", "t1", round, mid, HoleArgument(h), outcome, "", <<>>), 0)

\* the caller changes the tournament value it holds, the one it handed to the
\* store (which = "given") or the one a get returned (which = "got"):
\* t.Rounds[i].Matches = nil
CallerClearsRound(which, i) ==
    /\ mem[which] # <<>>
    /\ LET t == mem[which][1].t
           heap == [mem.heap EXCEPT ![t.rounds][i].matches = <<>>]
       IN  /\ heap # mem.heap
           /\ mem' = [mem EXCEPT !.heap = heap,
                       !.given = IF mem.given = <<>> THEN <<>> ELSE Held(heap, mem.given[1].t),
                       !.got = IF mem.got = <<>> THEN <<>> ELSE Held(heap, mem.got[1].t)]
    /\ last' = Called0("caller", "t1", i, "", 0, "", "")
    /\ UNCHANGED <<now, nextId, aliasRest>>

\* the matches a call can name: those of the stored tournament, and one no round has
AliasMatchInputs ==
    {<<1, "nope">>} \cup (IF mem.stored = <<>> THEN {} ELSE MatchesOf(StoredValue))

NextAlias ==
    \/ \E names \in NamePairs : AliasCreate(names)
    \/ AliasGet
    \/ \E names \in NamePairs : AliasUpdateWhole(names)
    \/ AliasDelete
    \/ \E round \in RoundInputs, n \in 1..MaxMatches : AliasSetPairings(round, n)
    \/ \E m \in AliasMatchInputs, res \in OverrideInputs : AliasOverrideResult(m[1], m[2], res)
    \/ \E m \in AliasMatchInputs, h \in HoleInputs, outcome \in OutcomeInputs :
          AliasSetHoleResult(m[1], m[2], h, outcome)
    \/ \E which \in {"given", "got"}, i \in 1..2 : CallerClearsRound(which, i)

SpecAlias == InitAlias /\ [][NextAlias]_vars

\* C32 as stated: what the in-memory store holds is what its operations left,
\* whatever a caller has since done to a tournament value it handed over or
\* got back, and the value a get returned is still the tournament it was when
\* it was returned (or as the caller has changed it), whatever the store has
\* done since.
C32_Isolated ==
    /\ mem.stored # <<>> => StoredValue = mem.expect[1]
    /\ mem.got # <<>> => Deref(mem.heap, mem.got[1].t) = mem.got[1].seen

----------------------------------------------------------------------------
(* Properties of the concurrent store *)

\* goroutine p has returned from a successful set-hole-result, its only call
HoleCallDone(p) ==
    /\ procs[p].pc = "done"
    /\ procs[p].calls = 1
    /\ procs[p].req.op = "hole"
    /\ procs[p].err = ""

\* the stored tournament shows the hole edit goroutine p made
Reflected(p) ==
    LET r == procs[p].req
    IN  /\ r.tid \in StoredIds
        /\ \E m \in MatchSet(Stored(r.tid)) :
              /\ m.id = r.match
              /\ IF r.outcome = "" THEN ~HasEntry(m, r.hole)
                 ELSE OutcomeOfHole(m, r.hole) = r.outcome

\* C2: when two set-hole-result calls on different matches of one tournament
\* run concurrently and both succeed, the stored tournament holds both edits,
\* in every backend.
C2_BothEditsPersist ==
    \A p \in Procs, q \in Procs :
        (/\ p # q
         /\ HoleCallDone(p)
         /\ HoleCallDone(q)
         /\ procs[p].req.match # procs[q].req.match)
            => Reflected(p) /\ Reflected(q)

\* the positions at which a call is about to touch storage or is between its
\* load and its store
AtStorage(p) == procs[p].pc \in {"read", "write", "rename"}

\* C3: in each backend a mutating call holds the exclusive lock from before its
\* first read until after its write, and no other call touches storage meanwhile.
C3_ExclusiveWhileMutating ==
    \A p \in Procs :
        (Mutating(procs[p].req) /\ AtStorage(p))
            => /\ mu.writer = p
               /\ \A q \in Procs \ {p} : ~AtStorage(q)

\* the document readable at a tournament's path of store st, <<>> when absent
DocAt(st, id) == IF path(id) \in DOMAIN st THEN <<st[path(id)]>> ELSE <<>>

ConcIds == {"t1", "t2"}

\* every document at a tournament's path is a completely written one
NoTornDocument == \A id \in ConcIds : \A d \in {DocAt(store, id)} : d = <<>> \/ d[1].complete

\* no get has failed to decode what it read
NoTornRead == \A p \in Procs : procs[p].req.op = "get" => procs[p].err \in {"", "notfound"}

\* goroutine p's write fails in this step
WriteFailsNow(p) ==
    /\ procs[p].pc \in {"write", "rename"}
    /\ procs'[p].pc = "unlock"
    /\ procs'[p].err # ""

\* C4: in the file backend a write that fails at encoding, at writing the
\* temporary file or at renaming it leaves the document at the tournament's path
\* as it was (or absent), and no reader ever finds a partly written document.
C4_FailedWriteKeepsDocument ==
    /\ [](backend = "file" => NoTornDocument /\ NoTornRead)
    /\ [][ \A p \in Procs :
              (backend = "file" /\ WriteFailsNow(p))
                  => \A id \in ConcIds : DocAt(store', id) = DocAt(store, id) ]_vars

\* a write of tournament t1 has failed leaving a partly written temporary file,
\* the document at its path is whole, and the other goroutine has read it
C4_Witness ==
    /\ backend = "file"
    /\ \E p \in Procs, q \in Procs :
          /\ Mutating(procs[p].req) /\ procs[p].req.tid = "t1"
          /\ procs[p].pc = "done" /\ procs[p].err = "storage"
          /\ tmpPath("t1") \in DOMAIN store /\ ~store[tmpPath("t1")].complete
          /\ procs[q].req = Req("get", "t1", 0, "", 0, "", "", <<>>)
          /\ procs[q].pc = "done" /\ procs[q].err = ""
    /\ DocAt(store, "t1") = DocAt(ConcStore, "t1")

\* goroutine p is inside a Store call
InCall(p) == procs[p].pc \notin {"idle", "done"}

\* goroutine p holds the store's lock, for writing or for reading
HoldsLock(p) == mu.writer = p \/ p \in mu.readers

\* C31: a goroutine that is not inside a Store call holds no lock, whatever the
\* call returned (success, not-found, conflict, storage failure), and under fair
\* scheduling every call that was started returns.
C31_LockReleasedAndCallsReturn ==
    /\ [](\A p \in Procs : ~InCall(p) => ~HoldsLock(p))
    /\ \A p \in Procs : InCall(p) ~> (procs[p].pc = "done")

\* in a store with a lock one call has returned a storage failure, the other
\* not-found or conflict, and the lock is free
C31_Witness ==
    /\ HasLock
    /\ mu = Unlocked
    /\ \E p \in Procs, q \in Procs :
          /\ procs[p].pc = "done" /\ procs[p].err = "storage"
          /\ procs[q].pc = "done" /\ procs[q].err \in {"notfound", "conflict"}

\* goroutine p is inside the read-modify-write cycle of a mutation
InCycle(p) == Mutating(procs[p].req) /\ AtStorage(p)

\* goroutines p and q serve mutations of two different tournaments
OnTwoTournaments(p, q) ==
    /\ p # q
    /\ Mutating(procs[p].req) /\ Mutating(procs[q].req)
    /\ procs[p].req.tid # procs[q].req.tid

\* C35 as stated: a mutation of one tournament does not keep out a mutation of
\* another: while the first is inside its read-modify-write cycle, the second,
\* when it asks for the store's lock, can take it.
C35_OtherIdsNotExcluded ==
    \A p \in Procs, q \in Procs :
        (OnTwoTournaments(p, q) /\ InCycle(p) /\ procs[q].pc = "lock") => ENABLED Acquire(q)

\* C35: the memory and file stores have one lock for all tournaments: while a
\* mutation of one tournament is inside its read-modify-write cycle, a mutation
\* of another is not inside its own, and waits if it has asked for the lock;
\* the Firestore store has no lock and no call of it ever waits.
C35_OneLockForAllIds ==
    \A p \in Procs, q \in Procs :
        (OnTwoTournaments(p, q) /\ InCycle(p)) =>
            IF HasLock
            THEN ~InCycle(q) /\ (procs[q].pc = "lock" => ~ENABLED Acquire(q))
            ELSE procs[q].pc # "lock"

\* in a store with a lock, a mutation of t1 is inside its cycle and a create
\* of t2 waits for the lock
C35_Witness ==
    /\ HasLock
    /\ \E p \in Procs, q \in Procs :
          /\ OnTwoTournaments(p, q) /\ InCycle(p)
          /\ procs[p].req.tid = "t1"
          /\ procs[q].pc = "lock" /\ procs[q].req.op = "create"

\* goroutine p's create call has returned, and not with a storage failure
CreateReturned(p) ==
    /\ procs[p].req.op = "create"
    /\ procs[p].pc = "done"
    /\ procs[p].err # "storage"

\* C37 as stated: of two create calls with the same id on one store, one
\* returns success and the other the already-exists error, and the tournament
\* is stored.
C37_OneCreateWins ==
    \A p \in Procs, q \in Procs :
        (p # q /\ CreateReturned(p) /\ CreateReturned(q)
             /\ procs[p].req.tid = procs[q].req.tid)
            => /\ {procs[p].err, procs[q].err} = {"", "conflict"}
               /\ Exists(store, procs[p].req.tid)

\* goroutine p has served a roster update, goroutine q a hole edit or pairings,
\* and both have returned success
BothReturned(p, q) ==
    /\ procs[p].req.op = "update" /\ procs[p].pc = "done" /\ procs[p].err = ""
    /\ procs[q].req.op \in {"hole", "pairings"} /\ procs[q].pc = "done" /\ procs[q].err = ""

\* the stored tournament shows the pairings goroutine q set
PairingsReflected(q) ==
    LET r == procs[q].req
    IN  /\ r.tid \in StoredIds
        /\ \E i \in {RoundIndex(Stored(r.tid), r.round)} :
              i > 0 /\ Len(Stored(r.tid).rounds[i].matches) = Len(r.matches)

\* C36 as stated: when a roster update through get, modify, update-whole and a
\* set-hole-result or set-round-pairings on the same tournament have both
\* returned success, the stored tournament has the names of the one and the
\* hole result or the pairings of the other.
C36_RosterEditKeepsOthers ==
    \A p \in Procs, q \in Procs :
        BothReturned(p, q) =>
            /\ "t1" \in StoredIds
            /\ <<Stored("t1").teams[1].name, Stored("t1").teams[2].name>> = RosterNames
            /\ IF procs[q].req.op = "hole" THEN Reflected(q) ELSE PairingsReflected(q)

----------------------------------------------------------------------------
(* Properties of a match played hole by hole *)

\* the last call recorded an outcome on a hole that had none
RecordedNewHole == LastWas("hole") /\ last.outcome # "" /\ ~HasEntry(MatchWas, last.hole)

\* C38: when a match's derived result is team1 or team2, a set-hole-result that
\* records an outcome on a hole that had none, with its backfill, leaves the
\* result the same side's.
C38_ClinchStays ==
    (RecordedNewHole /\ MatchWas.result \in {ResultTeam1, ResultTeam2})
        => LastMatch.result = MatchWas.result

\* a match team2 had clinched with two holes to play has had the last hole
\* recorded as won by team1, the hole before it halved by the backfill, and
\* is still team2's
C38_Witness ==
    /\ RecordedNewHole
    /\ MatchWas.result = ResultTeam2
    /\ last.hole = NumHoles /\ last.outcome = "team1"
    /\ ~HasEntry(MatchWas, NumHoles - 1)
    /\ LastMatch.result = ResultTeam2 /\ LastMatch.score # MatchWas.score

\* C39: from a freshly paired match on, whatever set-hole-result calls with
\* non-empty outcomes have succeeded, the holes recorded are holes 1..k for some
\* k, the highest hole recorded, each with team1, team2 or halved, and the
\* container has no entry outside holes 1..18.
C39_PrefixOfHoles ==
    \A m \in MatchSet(Stored("t1")) :
        \E k \in 0..NumHoles :
            /\ \A h \in 1..NumHoles : HasEntry(m, h) <=> h <= k
            /\ \A h \in 1..k : OutcomeOfHole(m, h) \in RecordedResults
            /\ IF backend = "memory"
               THEN Len(m.holeResults) \in {0, NumHoles}
               ELSE DOMAIN m.holeResults \subseteq {KeyOfNumber[h] : h \in 1..NumHoles}
            /\ LastWas("hole") => last.hole <= k

\* hole 17 has just been recorded on a match that had holes 1 and 2 only: holes
\* 3 to 16 are halved by the backfill, hole 18 has nothing
C39_Witness ==
    /\ LastWas("hole") /\ last.hole = NumHoles - 1
    /\ HasEntry(MatchWas, 2) /\ ~HasEntry(MatchWas, 3)
    /\ OutcomeOfHole(LastMatch, 1) = "team1" /\ OutcomeOfHole(LastMatch, 2) = "team2"
    /\ OutcomeOfHole(LastMatch, 3) = "halved"
    /\ ~HasEntry(LastMatch, NumHoles)

====
